---- MODULE Spec2Model ----
(***************************************************************************)
(* VoxBox: the job processing pipeline (JobProcessor.process_job_file),    *)
(* the idempotency ledger (ProcessedFilesDB) and the local folder watcher  *)
(* that feeds the pipeline.                                                *)
(*                                                                         *)
(* Two specifications:                                                     *)
(*   LedgerSpec  the ledger API driven by arbitrary calls                  *)
(*   Spec        the local watcher running jobs through the pipeline       *)
(***************************************************************************)
EXTENDS Integers, Sequences, FiniteSets, TLC

VARIABLES
    \* ProcessedFilesDB (storage.py): the processed_files table, the
    \* AUTOINCREMENT counter
    ledger, nextId,
    \* harness of LedgerSpec: last completed mark_processed per identifier,
    \* and the answer of the last is_processed call
    lastCall, answer,
    \* file system and outside world touched by the pipeline
    temp, artifacts, sent,
    \* local watcher (local_watcher.py)
    inbox, archive, wstate, handler, cur, events, todo, processing,
    \* process_job_file: position, arguments, locals, return value
    pc, job_content, job_filename, job_identifier, account_id,
    video_id, url, download_result, transcript_result, analysis,
    folder_path, error_msg, result,
    \* history of the current invocation and of the run
    trace, markCalls, dbRaised, failedStage, notifyOutcome, successWrites,
    priorSuccess, runs,
    \* a TranscriptResult on its own (transcriber.py): the segments handed to
    \* _merge_segments or to format_with_timestamps, and what they returned
    segments, merged, remerged, interval_seconds, lines, tstate,
    \* GeminiClient.analyze_video on its own (gemini_client.py): the client's
    \* settings, the loop's locals, its position, and the calls of
    \* generate_content and of time.sleep made so far
    max_retries, retry_delay, attempt, last_error, astate, calls, slept,
    \* GeminiClient._parse_response on its own: the text handed to it and
    \* what it returned
    response_text, parsed, rstate,
    \* JobFileHandler on its own (local_watcher.py): per thread delivering an
    \* event, its position in on_created, the path of its event, and how its
    \* last invocation ended
    hpc, hfile, hlast,
    \* DropboxWatcher (dropbox_watcher.py): the stored tokens, the watcher's
    \* cursors and initialized accounts, the position inside poll_once with
    \* its loop variables, and what the current tick has done so far
    tokens, cursors, initialized_accounts, dpc, accounts_left, cur_account,
    new_files, files_left, seen, refreshes, denied, afterDenied, tracked, polled,
    handled, remote_ops,
    \* two jobs and their identifiers against the ledger
    jobs, id_state,
    \* TokenStorage (storage.py) with the two threads that write it: the token
    \* files, the tokens the endpoint has issued, refresh_token in the poller
    \* (position, account, the record it holds), exchange_code_for_token in
    \* the callback thread (position, the record it is about to save), and
    \* the refresh token the callback thread saved last per account
    store, issued, rpc, racct, rcopy, cpc, cnew, cblast

ledgerVars == <<ledger, nextId>>
harnessVars == <<lastCall, answer>>
worldVars == <<temp, artifacts, sent>>
watcherVars == <<inbox, archive, wstate, handler, cur, events, todo, processing>>
argVars == <<job_content, job_filename, job_identifier, account_id>>
localVars == <<video_id, url, download_result, transcript_result, analysis,
               folder_path, error_msg, result>>
histVars == <<trace, markCalls, dbRaised, failedStage, notifyOutcome, successWrites,
              priorSuccess, runs>>
transcriptVars == <<segments, merged, remerged, interval_seconds, lines, tstate>>
\* the state of the units that are also exercised on their own
retryVars == <<max_retries, retry_delay, attempt, last_error, astate, calls, slept>>
responseVars == <<response_text, parsed, rstate>>
handlerVars == <<hpc, hfile, hlast>>
dropboxVars == <<tokens, cursors, initialized_accounts, dpc, accounts_left, cur_account,
                 new_files, files_left, seen, refreshes, denied, afterDenied, tracked,
                 polled, handled, remote_ops>>
identVars == <<jobs, id_state>>
credVars == <<store, issued, rpc, racct, rcopy, cpc, cnew, cblast>>
unitVars == <<transcriptVars, retryVars, responseVars, handlerVars, dropboxVars, identVars,
              credVars>>
vars == <<ledgerVars, harnessVars, worldVars, watcherVars, pc, argVars,
          localVars, histVars, unitVars>>

----------------------------------------------------------------------------
\* Bounds of the model

\* process_job_file invocations in one behaviour of Spec
MaxRuns == 2
\* mark_processed calls in one behaviour of LedgerSpec
MaxWrites == 3
\* segments in a transcript handed to _merge_segments or format_with_timestamps
MaxSegs == 4
MaxLines == 3
MaxRetries == 4
MaxDelay == 2
MaxTags == 2
MaxPages == 3
MaxIdLen == 2
MaxTokens == 3

----------------------------------------------------------------------------
\* Values

None == "None"
\* Python None for a path (output_path, folder_path)
NoPath == <<>>
\* a JSON null inside the analysis dictionary
JsonNull == "null"

\* files the watcher can see in the inbox; *.txt are job files
Paths == {"a.txt", "b.txt"}

\* job_identifier = f"local:{file_path.absolute()}"
LocalIdentifier(p) == <<"local", p>>
Identifiers == {LocalIdentifier(p) : p \in Paths}

----------------------------------------------------------------------------
\* ProcessedFilesDB

\* SELECT status FROM processed_files WHERE file_path = ?
select_by_file_path(file_path) == {r \in ledger : r.file_path = file_path}

\* cursor.fetchone(): the first row of the result set (lowest rowid)
fetchone(rows) == CHOOSE r \in rows : \A q \in rows : r.id <= q.id

is_processed_AnyRecord(file_path) ==
    select_by_file_path(file_path) # {}

\* ProcessedFilesDB.is_processed: result is not None and result[0] == "success"
is_processed(file_path) ==
    LET rows == select_by_file_path(file_path)
    IN  rows # {} /\ fetchone(rows).status = "success"

NewRow(file_path, status, acct, file_hash, error_message, output_path) ==
    [id |-> nextId, file_path |-> file_path, file_hash |-> file_hash,
     account_id |-> acct, processed_at |-> nextId, status |-> status,
     error_message |-> error_message, output_path |-> output_path]

mark_processed_PlainInsert(file_path, status, acct, file_hash, error_message, output_path) ==
    /\ ledger' = ledger \cup
          {NewRow(file_path, status, acct, file_hash, error_message, output_path)}
    /\ nextId' = nextId + 1

\* ProcessedFilesDB.mark_processed: INSERT OR REPLACE on the UNIQUE file_path:
\* the row in conflict is deleted and the new row inserted under a new rowid
mark_processed(file_path, status, acct, file_hash, error_message, output_path) ==
    /\ ledger' = {r \in ledger : r.file_path # file_path} \cup
          {NewRow(file_path, status, acct, file_hash, error_message, output_path)}
    /\ nextId' = nextId + 1

----------------------------------------------------------------------------
\* URLParser (url_parser.py). A line of a job file is a sequence of tokens:
\* white space, a '#', a word, or a URL. A URL has a scheme or not, a form
\* (which YOUTUBE_PATTERNS entry its host and path fit: watch, short, embed,
\* shorts, live, mobile; "param" for a youtube.com URL whose v parameter is not
\* the first one; "other" for any other site) and the identifier it carries
\* ("bad" for one shorter than 11 characters)

Token(kind, scheme, form, vid) == [kind |-> kind, scheme |-> scheme, form |-> form, vid |-> vid]
Space == Token("space", FALSE, None, None)
Hash == Token("hash", FALSE, None, None)
Word == Token("word", FALSE, None, None)
Url(scheme, form, vid) == Token("url", scheme, form, vid)
NoUrl == Token("none", FALSE, None, None)
VideoIds == {"v1", "v2"}

\* str.strip() on a line
RECURSIVE lstrip_line(_)
lstrip_line(line) ==
    IF line # <<>> /\ Head(line) = Space THEN lstrip_line(Tail(line)) ELSE line
RECURSIVE rstrip_line(_)
rstrip_line(line) ==
    IF line # <<>> /\ line[Len(line)] = Space
    THEN rstrip_line(SubSeq(line, 1, Len(line) - 1))
    ELSE line
strip_line(line) == rstrip_line(lstrip_line(line))

\* YOUTUBE_PATTERNS, in list order
YOUTUBE_PATTERNS == <<"watch", "short", "embed", "shorts", "live", "mobile">>

\* re.search(pattern, text) finds the pattern in token t: the patterns are not
\* anchored and the scheme is optional; the watch pattern also fits inside a
\* mobile URL; the identifier group needs 11 characters
PatternMatches(pattern, t) ==
    /\ t.kind = "url"
    /\ t.vid \in VideoIds
    /\ t.form = pattern \/ (pattern = "watch" /\ t.form = "mobile")

\* url_parser.py 64-73: urlparse sees a netloc only when the text starts with
\* the scheme; the v parameter runs to the end of the text
FallbackId(text) ==
    IF /\ Len(text) = 1
       /\ text[1].kind = "url"
       /\ text[1].scheme
       /\ text[1].form = "param"
       /\ text[1].vid \in VideoIds
    THEN text[1].vid
    ELSE None

\* URLParser.extract_video_id: the first pattern of the list that is found
\* anywhere in the text gives the identifier (leftmost match of that pattern);
\* else the urlparse fallback
extract_video_id(text) ==
    LET stripped == strip_line(text)
        Found(k) == \E i \in 1..Len(stripped) : PatternMatches(YOUTUBE_PATTERNS[k], stripped[i])
    IN  IF \E k \in 1..Len(YOUTUBE_PATTERNS) : Found(k)
        THEN LET k == CHOOSE k \in 1..Len(YOUTUBE_PATTERNS) :
                          Found(k) /\ \A h \in 1..(k - 1) : ~Found(h)
                 i == CHOOSE i \in 1..Len(stripped) :
                          /\ PatternMatches(YOUTUBE_PATTERNS[k], stripped[i])
                          /\ \A j \in 1..(i - 1) : ~PatternMatches(YOUTUBE_PATTERNS[k], stripped[j])
             IN  stripped[i].vid
        ELSE FallbackId(stripped)

\* URLParser.is_valid_youtube_url
is_valid_youtube_url(text) == extract_video_id(text) # None

\* f"https://www.youtube.com/watch?v={video_id}"
WatchUrl(vid) == Url(TRUE, "watch", vid)

\* URLParser.normalize_url
normalize_url(text) ==
    IF extract_video_id(text) # None THEN WatchUrl(extract_video_id(text)) ELSE NoUrl

\* re.search(r"https?://[^\s]+", line): the first URL with a scheme, with
\* whatever follows it up to the next white space
url_match(line) ==
    IF \E i \in 1..Len(line) : line[i].kind = "url" /\ line[i].scheme
    THEN LET i == CHOOSE i \in 1..Len(line) :
                      /\ line[i].kind = "url" /\ line[i].scheme
                      /\ \A j \in 1..(i - 1) : ~(line[j].kind = "url" /\ line[j].scheme)
             stop == IF \E j \in i..Len(line) : line[j] = Space
                     THEN CHOOSE j \in i..Len(line) :
                              line[j] = Space /\ \A h \in i..(j - 1) : line[h] # Space
                     ELSE Len(line) + 1
         IN  SubSeq(line, i, stop - 1)
    ELSE <<>>

skip_line_BlankOnly(line) == line = <<>>

\* url_parser.py 129: if not line or line.startswith("#"): continue
skip_line(line) == line = <<>> \/ Head(line) = Hash

RECURSIVE parse_job_file(_)
\* URLParser.parse_job_file: the lines in order; blank lines and lines
\* starting with '#' are skipped; the line itself, else the first URL in it
parse_job_file(content) ==
    IF content = <<>> THEN NoUrl
    ELSE LET line == strip_line(Head(content))
         IN  IF skip_line(line) THEN parse_job_file(Tail(content))
             ELSE IF is_valid_youtube_url(line) THEN normalize_url(line)
             ELSE IF url_match(line) # <<>> /\ is_valid_youtube_url(url_match(line))
             THEN normalize_url(url_match(line))
             ELSE parse_job_file(Tail(content))

\* job files dropped into the inbox: a blank line then a bare URL; a commented
\* URL then a line of text
JobContents ==
    { << <<>>, <<Url(TRUE, "short", "v1")>> >>,
      << <<Hash, Space, Url(TRUE, "short", "v1")>>, <<Word>> >> }

----------------------------------------------------------------------------
\* Transcript segments (transcriber.py). A text is a sequence of characters

Segment(start, end, text) == [start |-> start, end |-> end, text |-> text]

IsSpace(c) == c = " "
RECURSIVE lstrip(_)
lstrip(t) == IF t # <<>> /\ IsSpace(Head(t)) THEN lstrip(Tail(t)) ELSE t
RECURSIVE rstrip(_)
rstrip(t) ==
    IF t # <<>> /\ IsSpace(t[Len(t)]) THEN rstrip(SubSeq(t, 1, Len(t) - 1)) ELSE t
\* str.strip()
strip(t) == rstrip(lstrip(t))
\* str.lower()
lower(t) == [i \in 1..Len(t) |-> IF t[i] = "A" THEN "a" ELSE IF t[i] = "B" THEN "b" ELSE t[i]]
\* segment.text.strip().lower()
clean_text(segment) == lower(strip(segment.text))
\* Python's `x in y` on strings
IsSubstring(x, y) == \E i \in 1..(Len(y) - Len(x) + 1) : SubSeq(y, i, i + Len(x) - 1) = x

merge_step_AppendsSuperset(acc, segment) ==
    LET clean == clean_text(segment)
    IN  IF clean = <<>> \/ clean \in acc.seen_texts THEN acc
        ELSE IF acc.merged # <<>> /\ IsSubstring(clean, clean_text(acc.merged[Len(acc.merged)]))
        THEN acc
        ELSE [merged |-> Append(acc.merged, segment), seen_texts |-> acc.seen_texts \cup {clean}]

merge_step_IgnoresSeen(acc, segment) ==
    LET clean == clean_text(segment)
        last_clean == clean_text(acc.merged[Len(acc.merged)])
    IN  IF clean = <<>> THEN acc
        ELSE IF acc.merged # <<>> /\ IsSubstring(clean, last_clean) THEN acc
        ELSE IF acc.merged # <<>> /\ IsSubstring(last_clean, clean)
        THEN [merged |-> [acc.merged EXCEPT ![Len(acc.merged)] = segment],
              seen_texts |-> (acc.seen_texts \ {last_clean}) \cup {clean}]
        ELSE [merged |-> Append(acc.merged, segment), seen_texts |-> acc.seen_texts \cup {clean}]

\* transcriber.py 213-238: one pass of the loop body over `segment`, with
\* merged and seen_texts as they stand
merge_step(acc, segment) ==
    LET clean == clean_text(segment)
        last_clean == clean_text(acc.merged[Len(acc.merged)])
    IN  IF clean = <<>> \/ clean \in acc.seen_texts THEN acc
        ELSE IF acc.merged # <<>> /\ IsSubstring(clean, last_clean) THEN acc
        ELSE IF acc.merged # <<>> /\ IsSubstring(last_clean, clean)
        THEN [merged |-> [acc.merged EXCEPT ![Len(acc.merged)] = segment],
              seen_texts |-> (acc.seen_texts \ {last_clean}) \cup {clean}]
        ELSE [merged |-> Append(acc.merged, segment), seen_texts |-> acc.seen_texts \cup {clean}]

RECURSIVE merge_loop(_, _)
\* transcriber.py 210-238: the loop over the first k segments
merge_loop(segs, k) ==
    IF k = 0 THEN [merged |-> <<>>, seen_texts |-> {}]
    ELSE LET acc == merge_loop(segs, k - 1)
         IN  merge_step(acc, segs[k])

\* Transcriber._merge_segments
merge_segments(segs) == merge_loop(segs, Len(segs)).merged

\* TranscriptResult._format_timestamp: <<hours, minutes, secs>>, hours shown
\* only when positive
format_timestamp(seconds) ==
    LET hours == seconds \div 3600
        minutes == (seconds % 3600) \div 60
        secs == seconds % 60
    IN  IF hours > 0 THEN <<hours, minutes, secs>> ELSE <<minutes, secs>>

\* the items of `lines`: a "\n(MM:SS)" marker or a segment text
Marker(start) == [marker |-> format_timestamp(start)]
TextItem(text) == [text |-> text]

format_step_StrictlyLater(acc, segment, interval) ==
    IF segment.start - acc.last_timestamp > interval
    THEN [lines |-> acc.lines \o <<Marker(segment.start), TextItem(segment.text)>>,
          last_timestamp |-> segment.start]
    ELSE [lines |-> Append(acc.lines, TextItem(segment.text)), last_timestamp |-> acc.last_timestamp]

\* transcriber.py 50-57: one pass of the loop body
format_step(acc, segment, interval) ==
    IF segment.start - acc.last_timestamp >= interval
    THEN [lines |-> acc.lines \o <<Marker(segment.start), TextItem(segment.text)>>,
          last_timestamp |-> segment.start]
    ELSE [lines |-> Append(acc.lines, TextItem(segment.text)), last_timestamp |-> acc.last_timestamp]

RECURSIVE format_loop(_, _, _)
\* transcriber.py 47-57: last_timestamp starts at -interval_seconds
format_loop(segs, k, interval) ==
    IF k = 0 THEN [lines |-> <<>>, last_timestamp |-> 0 - interval]
    ELSE LET acc == format_loop(segs, k - 1, interval)
         IN  format_step(acc, segs[k], interval)

\* TranscriptResult.format_with_timestamps: the items joined by " " (44-45: no
\* segments, no items)
format_with_timestamps(segs, interval) ==
    IF segs = <<>> THEN <<>> ELSE format_loop(segs, Len(segs), interval).lines

----------------------------------------------------------------------------
\* Collaborators of the pipeline

\* temp_dir files of a video: <<video_id, suffix>>
AudioFile(v) == <<v, "mp3">>
ManualCaption(v) == <<v, "en.vtt">>
AutoCaption(v) == <<v, "en-orig.vtt">>
PartFile(v) == <<v, "part">>
CaptionSets == { {}, {"en.vtt"}, {"en-orig.vtt"} }

NoDownload ==
    [title |-> None, audio_path |-> <<>>, caption_path |-> <<>>, caption_source |-> None]

\* AudioDownloader._find_best_caption over the files now in temp_dir
find_best_caption(files, v) ==
    IF ManualCaption(v) \in files THEN <<ManualCaption(v), "manual">>
    ELSE IF AutoCaption(v) \in files THEN <<AutoCaption(v), "auto">>
    ELSE <<<<>>, None>>

\* AudioDownloader.cleanup: unlink every temp_dir file named video_id*
cleanup(files, v) == {f \in files : f[1] # v}

\* Transcriber.transcribe source tag: f"youtube_{caption_source}"
YoutubeSource_DropsFlag(caption_source) ==
    IF caption_source = None THEN "youtube" ELSE "youtube_manual"

YoutubeSource(caption_source) ==
    IF caption_source = "manual" THEN "youtube_manual"
    ELSE IF caption_source = "auto" THEN "youtube_auto"
    ELSE "youtube"

\* what GeminiClient.analyze_video can return: _parse_response keeps the
\* service's own "title" and "summary" values when the keys are present,
\* whatever their JSON type, and guarantees a list of tag dictionaries
UncategorizedTag == [name |-> "uncategorized", confidence |-> 100, primary |-> TRUE]
Analysis(title, summary) == [title |-> title, summary |-> summary, tags |-> <<UncategorizedTag>>]
NoAnalysis == Analysis(None, None)
Analyses == { Analysis("T", "S"), Analysis("T", JsonNull), Analysis(JsonNull, "S") }

\* JSON values a "tags" key can hold: a list, a string, null
JList(items) == [type |-> "list", items |-> items]
JString == [type |-> "string", items |-> <<>>]
JNull == [type |-> "null", items |-> <<>>]

\* elements of a tags list: a dictionary with or without a "primary" key, or
\* something that is no dictionary
Tag(name, confidence, primary) == [name |-> name, confidence |-> confidence, primary |-> primary]
TagNoPrimary(name, confidence) == [name |-> name, confidence |-> confidence]
NotADict == [scalar |-> "x"]
IsDict(tag) == "scalar" \notin DOMAIN tag

\* tag.get("primary", False)
get_primary(tag) == IF "primary" \in DOMAIN tag THEN tag.primary ELSE FALSE

\* data["tags"][0]["primary"] = True
set_primary(tag) == [k \in DOMAIN tag \cup {"primary"} |-> IF k = "primary" THEN TRUE ELSE tag[k]]

\* pieces of a response text: the fences ```json and ```, prose, a JSON
\* object with some of the keys, any other JSON value
Piece(kind, fields) == [kind |-> kind, fields |-> fields]
FenceJson == Piece("fence_json", <<>>)
Fence == Piece("fence", <<>>)
Prose == Piece("prose", <<>>)
JsonOther == Piece("other", <<>>)
JsonObject(fields) == Piece("dict", fields)

\* gemini_client.py 173-182: strip, drop a leading ```json, a leading ```, a
\* trailing ```, strip
strip_fences(text) ==
    LET a == IF text # <<>> /\ Head(text) = FenceJson THEN Tail(text) ELSE text
        b == IF a # <<>> /\ Head(a) = Fence THEN Tail(a) ELSE a
    IN  IF b # <<>> /\ b[Len(b)] = Fence THEN SubSeq(b, 1, Len(b) - 1) ELSE b

\* json.loads succeeds on exactly one JSON value
Decodes(json_str) == Len(json_str) = 1 /\ json_str[1].kind \in {"dict", "other"}

\* GeminiClient._get_default_value
get_default_value(field) ==
    IF field = "title" THEN "Untitled Video"
    ELSE IF field = "summary" THEN "No summary available."
    ELSE IF field = "tags" THEN JList(<<UncategorizedTag>>)
    ELSE ""

\* GeminiClient._fallback_response
fallback_response(title) ==
    [title |-> title, summary |-> "Unable to generate summary.", tags |-> <<UncategorizedTag>>]

\* gemini_client.py 188-192: a missing required key gets its default
required(fields, field) ==
    IF field \in DOMAIN fields THEN fields[field] ELSE get_default_value(field)

normalize_tags_KeepsEmpty(tags) ==
    IF tags.type # "list" THEN <<UncategorizedTag>> ELSE tags.items

\* gemini_client.py 195-198: a tags value that is no list, or an empty list
normalize_tags(tags) ==
    IF tags.type # "list" \/ tags.items = <<>> THEN <<UncategorizedTag>> ELSE tags.items

\* gemini_client.py 201: any(tag.get("primary", False) for tag in data["tags"])
\* stops at the first tag that is primary; a tag before it that is no
\* dictionary raises AttributeError
has_primary(tags) == \E i \in 1..Len(tags) : IsDict(tags[i]) /\ get_primary(tags[i])
any_raises(tags) ==
    \E i \in 1..Len(tags) :
        /\ ~IsDict(tags[i])
        /\ \A j \in 1..(i - 1) : IsDict(tags[j]) /\ ~get_primary(tags[j])

\* gemini_client.py 200-204: no tag is primary: the first one becomes primary
ensure_primary(tags) ==
    IF ~has_primary(tags) /\ Len(tags) > 0
    THEN [tags EXCEPT ![1] = set_primary(@)]
    ELSE tags

\* GeminiClient._parse_response: a text that json.loads rejects (214), or any
\* other exception (216: a JSON value that is no object, a tag that is no
\* dictionary), gives the fallback
parse_response(text) ==
    LET json_str == strip_fences(text)
    IN  IF ~Decodes(json_str) THEN fallback_response("Unknown")
        ELSE IF json_str[1].kind # "dict" THEN fallback_response("Unknown")
        ELSE LET data == json_str[1].fields
                 tags == normalize_tags(required(data, "tags"))
             IN  IF any_raises(tags) THEN fallback_response("Unknown")
                 ELSE [title |-> required(data, "title"),
                       summary |-> required(data, "summary"),
                       tags |-> ensure_primary(tags)]

NoTranscript == [source |-> None, captions |-> None, whisper |-> None]

SafetyLimit == 100

\* ObsidianFormatter._ensure_unique_path: the folder itself, else the first
\* free _<counter>, else (past the safety limit) a timestamp suffix, shown as -1
ensure_unique_path(base) ==
    IF <<base, 0>> \notin DOMAIN artifacts THEN <<base, 0>>
    ELSE IF \E k \in 1..SafetyLimit : <<base, k>> \notin DOMAIN artifacts
         THEN <<base, CHOOSE k \in 1..SafetyLimit :
                   /\ <<base, k>> \notin DOMAIN artifacts
                   /\ \A j \in 1..(k - 1) : <<base, j>> \in DOMAIN artifacts>>
         ELSE <<base, -1>>

\* a message handed to every provider's send; whether a provider delivered it
\* is known only to the provider (send logs its own failure)
Notification(kind, v) == [kind |-> kind, video_id |-> v]

----------------------------------------------------------------------------
\* JobProcessor.process_job_file

PipelineOrder ==
    <<"resolve", "download", "transcribe", "analyze", "create_note", "copy_audio",
      "ledger_success", "notify_success", "cleanup">>

\* entry: start_time, video_id = None, url = None
process_job_file(content, filename, identifier, account) ==
    /\ pc' = "check"
    /\ job_content' = content
    /\ job_filename' = filename
    /\ job_identifier' = identifier
    /\ account_id' = account
    /\ video_id' = None
    /\ url' = NoUrl
    /\ download_result' = NoDownload
    /\ transcript_result' = NoTranscript
    /\ analysis' = NoAnalysis
    /\ folder_path' = NoPath
    /\ error_msg' = None
    /\ result' = <<>>
    /\ trace' = <<>>
    /\ markCalls' = 0
    /\ dbRaised' = {}
    /\ failedStage' = None
    /\ notifyOutcome' = "none"
    /\ priorSuccess' = successWrites[identifier]
    /\ runs' = runs + 1
    /\ UNCHANGED successWrites

\* the frame of process_job_file is gone once the caller has its result
process_job_file_exit ==
    /\ pc' = "idle"
    /\ job_content' = <<>>
    /\ job_filename' = None
    /\ job_identifier' = <<>>
    /\ account_id' = None
    /\ video_id' = None
    /\ url' = NoUrl
    /\ download_result' = NoDownload
    /\ transcript_result' = NoTranscript
    /\ analysis' = NoAnalysis
    /\ folder_path' = NoPath
    /\ error_msg' = None
    /\ result' = <<>>
    /\ trace' = <<>>
    /\ markCalls' = 0
    /\ dbRaised' = {}
    /\ failedStage' = None
    /\ notifyOutcome' = "none"
    /\ priorSuccess' = 0
    /\ UNCHANGED <<successWrites, runs>>

\* an exception raised inside the try block: control passes to the except clause
Raise(stage, msg) ==
    /\ pc' = "except"
    /\ error_msg' = msg
    /\ failedStage' = stage

Step(stage) == trace' = Append(trace, stage)

\* the frame of a pipeline step that touches neither watcher nor arguments
OutsidePipeline == <<harnessVars, watcherVars, argVars, successWrites, priorSuccess, runs>>

CheckSkip_MarksSkipped ==
    /\ pc = "check"
    /\ is_processed(job_identifier)
    /\ mark_processed(job_identifier, "skipped", account_id, None, None, NoPath)
    /\ pc' = "returned"
    /\ result' = <<FALSE, NoPath, None>>
    /\ UNCHANGED <<worldVars, OutsidePipeline, video_id, url, download_result,
                   transcript_result, analysis, folder_path, error_msg,
                   trace, markCalls, dbRaised, failedStage, notifyOutcome>>

\* job_processor.py 92-94: the identifier is already processed: return, nothing done
CheckSkip ==
    /\ pc = "check"
    /\ is_processed(job_identifier)
    /\ pc' = "returned"
    /\ result' = <<FALSE, NoPath, None>>
    /\ UNCHANGED <<ledgerVars, worldVars, OutsidePipeline, video_id, url, download_result,
                   transcript_result, analysis, folder_path, error_msg,
                   trace, markCalls, dbRaised, failedStage, notifyOutcome>>

\* job_processor.py 92: not processed, go on
CheckPass ==
    /\ pc = "check"
    /\ ~is_processed(job_identifier)
    /\ pc' = "parse"
    /\ UNCHANGED <<ledgerVars, worldVars, OutsidePipeline, localVars,
                   trace, markCalls, dbRaised, failedStage, notifyOutcome>>

\* job_processor.py 92: the store cannot be opened or read: sqlite3 raises
\* inside is_processed, caught at 223
CheckRaises ==
    /\ pc = "check"
    /\ Raise("check", "sqlite3.OperationalError")
    /\ dbRaised' = dbRaised \cup {"is_processed"}
    /\ UNCHANGED <<ledgerVars, worldVars, OutsidePipeline, video_id, url, download_result,
                   transcript_result, analysis, folder_path, result,
                   trace, markCalls, notifyOutcome>>

\* job_processor.py 96-105: resolve the URL and the video id
ParseJob ==
    /\ pc = "parse"
    /\ Step("resolve")
    /\ \E u \in {parse_job_file(job_content)} :
           IF u = NoUrl
           THEN /\ Raise("resolve", "ValueError: No valid YouTube URL found in job file")
                /\ UNCHANGED <<url, video_id>>
           ELSE IF extract_video_id(<<u>>) = None
           THEN /\ Raise("resolve", "ValueError: Could not extract video ID from URL")
                /\ url' = u
                /\ UNCHANGED video_id
           ELSE /\ pc' = "download"
                /\ url' = u
                /\ video_id' = extract_video_id(<<u>>)
                /\ UNCHANGED <<error_msg, failedStage>>
    /\ UNCHANGED <<ledgerVars, worldVars, OutsidePipeline, download_result,
                   transcript_result, analysis, folder_path, result,
                   markCalls, dbRaised, notifyOutcome>>

\* job_processor.py 107-124, audio_downloader.py 113-175: audio and captions
\* land in temp_dir and the DownloadResult names them
DownloadOk(caps) ==
    /\ pc = "download"
    /\ Step("download")
    /\ LET files == temp \cup {AudioFile(video_id)} \cup {<<video_id, c>> : c \in caps}
           cap == find_best_caption(files, video_id)
       IN  /\ temp' = files
           /\ download_result' = [title |-> "Video", audio_path |-> AudioFile(video_id),
                                  caption_path |-> cap[1], caption_source |-> cap[2]]
    /\ pc' = "transcribe"
    /\ UNCHANGED <<ledgerVars, artifacts, sent, OutsidePipeline, video_id, url,
                   transcript_result, analysis, folder_path, error_msg, result,
                   markCalls, dbRaised, failedStage, notifyOutcome>>

DownloadFails_Escapes(partial) ==
    /\ pc = "download"
    /\ Step("download")
    /\ temp' = IF partial THEN temp \cup {PartFile(video_id)} ELSE temp
    /\ pc' = "raised"
    /\ error_msg' = "RuntimeError: Failed to download video"
    /\ failedStage' = "download"
    /\ UNCHANGED <<ledgerVars, artifacts, sent, OutsidePipeline, video_id, url,
                   download_result, transcript_result, analysis, folder_path, result,
                   markCalls, dbRaised, notifyOutcome>>

\* audio_downloader.py 177-182 and job_processor.py 112-113: download returns
\* None (possibly leaving a partial file) and the pipeline raises RuntimeError
DownloadFails(partial) ==
    /\ pc = "download"
    /\ Step("download")
    /\ temp' = IF partial THEN temp \cup {PartFile(video_id)} ELSE temp
    /\ Raise("download", "RuntimeError: Failed to download video")
    /\ UNCHANGED <<ledgerVars, artifacts, sent, OutsidePipeline, video_id, url,
                   download_result, transcript_result, analysis, folder_path, result,
                   markCalls, dbRaised, notifyOutcome>>

\* transcriber.py 103: caption_path and Path(caption_path).exists()
CaptionExists ==
    download_result.caption_path # <<>> /\ download_result.caption_path \in temp

\* what transcribe did: the source tag it returned (None when it raised), what
\* became of the caption file, and whether _transcribe_with_whisper ran
Transcript(source, captions, whisper) ==
    [source |-> source, captions |-> captions, whisper |-> whisper]

\* transcriber.py 103-108: the caption file exists and parses
TranscribeCaptions ==
    /\ pc = "transcribe"
    /\ CaptionExists
    /\ Step("transcribe")
    /\ transcript_result' = Transcript(YoutubeSource(download_result.caption_source),
                                       "parsed", "not_called")
    /\ pc' = "analyze"
    /\ UNCHANGED <<ledgerVars, worldVars, OutsidePipeline, video_id, url, download_result,
                   analysis, folder_path, error_msg, result,
                   markCalls, dbRaised, failedStage, notifyOutcome>>

TranscribeWhisper_EmptyResult(ok) ==
    /\ pc = "transcribe"
    /\ Step("transcribe")
    /\ transcript_result' = Transcript(IF ok THEN "whisper" ELSE "youtube",
                                       IF CaptionExists THEN "parse_failed" ELSE "absent",
                                       IF ok THEN "returned" ELSE "raised")
    /\ pc' = "analyze"
    /\ UNCHANGED <<ledgerVars, worldVars, OutsidePipeline, video_id, url, download_result,
                   analysis, folder_path, error_msg, result, markCalls, dbRaised,
                   failedStage, notifyOutcome>>

\* transcriber.py 109-114, 242-300: no caption file, or parsing it raised (the
\* exception is caught at 109): Whisper, which returns a result or raises
TranscribeWhisper(ok) ==
    /\ pc = "transcribe"
    /\ Step("transcribe")
    /\ LET captions == IF CaptionExists THEN "parse_failed" ELSE "absent"
       IN  IF ok
           THEN /\ transcript_result' = Transcript("whisper", captions, "returned")
                /\ pc' = "analyze"
                /\ UNCHANGED <<error_msg, failedStage>>
           ELSE /\ transcript_result' = Transcript(None, captions, "raised")
                /\ Raise("transcribe", "RuntimeError: Whisper transcription failed")
    /\ UNCHANGED <<ledgerVars, worldVars, OutsidePipeline, video_id, url, download_result,
                   analysis, folder_path, result, markCalls, dbRaised, notifyOutcome>>

\* job_processor.py 133-154, gemini_client.py 125-137: a response was received
AnalyzeOk(a) ==
    /\ pc = "analyze"
    /\ Step("analyze")
    /\ analysis' = a
    /\ pc' = "create_note"
    /\ UNCHANGED <<ledgerVars, worldVars, OutsidePipeline, video_id, url, download_result,
                   transcript_result, folder_path, error_msg, result,
                   markCalls, dbRaised, failedStage, notifyOutcome>>

\* gemini_client.py 155-158: every attempt failed, analyze_video raises
AnalyzeExhausted ==
    /\ pc = "analyze"
    /\ Step("analyze")
    /\ Raise("analyze", "Exception: Failed to analyze video after max_retries attempts")
    /\ UNCHANGED <<ledgerVars, worldVars, OutsidePipeline, video_id, url, download_result,
                   transcript_result, analysis, folder_path, result,
                   markCalls, dbRaised, notifyOutcome>>

\* job_processor.py 156-165, obsidian_formatter.py 50-84: _sanitize_filename
\* raises TypeError on a title that is no string; else the folder is made and
\* the note written, or writing it raises OSError
CreateNote(written) ==
    /\ pc = "create_note"
    /\ Step("create_note")
    /\ IF analysis.title = JsonNull
       THEN /\ Raise("create_note", "TypeError: expected string or bytes-like object")
            /\ UNCHANGED <<artifacts, folder_path>>
       ELSE LET fp == ensure_unique_path(analysis.title)
            IN  /\ artifacts' = [f \in DOMAIN artifacts \cup {fp} |->
                                   IF f = fp THEN [note |-> written, audio |-> FALSE]
                                   ELSE artifacts[f]]
                /\ IF written
                   THEN /\ folder_path' = fp
                        /\ pc' = "copy_audio"
                        /\ UNCHANGED <<error_msg, failedStage>>
                   ELSE /\ Raise("create_note", "OSError: cannot write note")
                        /\ UNCHANGED folder_path
    /\ UNCHANGED <<ledgerVars, temp, sent, OutsidePipeline, video_id, url, download_result,
                   transcript_result, analysis, result, markCalls, dbRaised, notifyOutcome>>

CopyAudio_AfterLedger(ok) ==
    /\ pc = "copy_audio"
    /\ pc' = "mark_success"
    /\ UNCHANGED <<ledgerVars, worldVars, OutsidePipeline, localVars, trace,
                   markCalls, dbRaised, failedStage, notifyOutcome>>

\* job_processor.py 167-189: shutil.copy2 of the audio into the folder
CopyAudio(ok) ==
    /\ pc = "copy_audio"
    /\ Step("copy_audio")
    /\ IF ok /\ download_result.audio_path \in temp
       THEN /\ artifacts' = [artifacts EXCEPT ![folder_path].audio = TRUE]
            /\ pc' = "mark_success"
            /\ UNCHANGED <<error_msg, failedStage>>
       ELSE /\ Raise("copy_audio", "OSError: cannot copy audio")
            /\ UNCHANGED artifacts
    /\ UNCHANGED <<ledgerVars, temp, sent, OutsidePipeline, video_id, url, download_result,
                   transcript_result, analysis, folder_path, result,
                   markCalls, dbRaised, notifyOutcome>>

\* job_processor.py 191-198: the success record
MarkSuccess ==
    /\ pc = "mark_success"
    /\ Step("ledger_success")
    /\ markCalls' = markCalls + 1
    /\ mark_processed(job_identifier, "success", account_id, video_id, None, folder_path)
    /\ successWrites' = [successWrites EXCEPT ![job_identifier] = @ + 1]
    /\ pc' = "notify_success"
    /\ UNCHANGED <<worldVars, harnessVars, watcherVars, argVars, priorSuccess,
                   runs, localVars, dbRaised, failedStage, notifyOutcome>>

\* job_processor.py 192: the store cannot be opened or written: sqlite3 raises
\* inside mark_processed, caught at 223
MarkSuccessRaises ==
    /\ pc = "mark_success"
    /\ Step("ledger_success")
    /\ markCalls' = markCalls + 1
    /\ dbRaised' = dbRaised \cup {"mark_success"}
    /\ Raise("ledger_success", "sqlite3.OperationalError")
    /\ UNCHANGED <<ledgerVars, worldVars, OutsidePipeline, video_id, url, download_result,
                   transcript_result, analysis, folder_path, result, notifyOutcome>>

\* job_processor.py 200-211, notifications.py 141-210: the arguments are
\* built (analysis.get("summary", "")[:300] raises TypeError on a summary
\* that cannot be sliced), then every provider is sent the message; a
\* provider's own failure is logged inside send
NotifySuccess(delivered) ==
    /\ pc = "notify_success"
    /\ Step("notify_success")
    /\ IF analysis.summary = JsonNull
       THEN /\ notifyOutcome' = "build_failed"
            /\ Raise("notify_success", "TypeError: 'NoneType' object is not subscriptable")
            /\ UNCHANGED sent
       ELSE /\ sent' = Append(sent, Notification("success", video_id))
            /\ notifyOutcome' = IF delivered THEN "sent" ELSE "send_failed"
            /\ pc' = "cleanup"
            /\ UNCHANGED <<error_msg, failedStage>>
    /\ UNCHANGED <<ledgerVars, temp, artifacts, OutsidePipeline, video_id, url,
                   download_result, transcript_result, analysis, folder_path, result,
                   markCalls, dbRaised>>

\* job_processor.py 213-221: temp cleanup and the success return
CleanupSuccess ==
    /\ pc = "cleanup"
    /\ Step("cleanup")
    /\ temp' = cleanup(temp, video_id)
    /\ result' = <<TRUE, folder_path, video_id>>
    /\ pc' = "returned"
    /\ UNCHANGED <<ledgerVars, artifacts, sent, OutsidePipeline, video_id, url,
                   download_result, transcript_result, analysis, folder_path, error_msg,
                   markCalls, dbRaised, failedStage, notifyOutcome>>

ExceptMark_DropsMessage ==
    /\ pc = "except"
    /\ Step("ledger_error")
    /\ markCalls' = markCalls + 1
    /\ mark_processed(job_identifier, "error", account_id, None, None, NoPath)
    /\ pc' = "notify_error"
    /\ UNCHANGED <<worldVars, OutsidePipeline, localVars,
                   dbRaised, failedStage, notifyOutcome>>

\* job_processor.py 223-244: the except clause records the error
ExceptMark ==
    /\ pc = "except"
    /\ Step("ledger_error")
    /\ markCalls' = markCalls + 1
    /\ mark_processed(job_identifier, "error", account_id, None, error_msg, NoPath)
    /\ pc' = "notify_error"
    /\ UNCHANGED <<worldVars, OutsidePipeline, localVars,
                   dbRaised, failedStage, notifyOutcome>>

\* job_processor.py 239: sqlite3 raises inside the except clause: the
\* exception leaves process_job_file
ExceptMarkRaises ==
    /\ pc = "except"
    /\ Step("ledger_error")
    /\ markCalls' = markCalls + 1
    /\ dbRaised' = dbRaised \cup {"mark_error"}
    /\ pc' = "raised"
    /\ UNCHANGED <<ledgerVars, worldVars, OutsidePipeline, localVars,
                   failedStage, notifyOutcome>>

\* job_processor.py 246-252, notifications.py 212-251: the error notification
ExceptNotify(delivered) ==
    /\ pc = "notify_error"
    /\ Step("notify_error")
    /\ sent' = Append(sent, Notification("error",
                   IF video_id # None THEN video_id ELSE "unknown"))
    /\ notifyOutcome' = IF notifyOutcome = "build_failed" THEN notifyOutcome
                        ELSE IF delivered THEN "error_sent" ELSE "error_send_failed"
    /\ pc' = "cleanup_error"
    /\ UNCHANGED <<ledgerVars, temp, artifacts, OutsidePipeline, localVars,
                   markCalls, dbRaised, failedStage>>

ExceptCleanup_KeepsTemp ==
    /\ pc = "cleanup_error"
    /\ result' = <<FALSE, NoPath, video_id>>
    /\ pc' = "returned"
    /\ UNCHANGED <<ledgerVars, worldVars, OutsidePipeline, video_id, url,
                   download_result, transcript_result, analysis, folder_path, error_msg,
                   trace, markCalls, dbRaised, failedStage, notifyOutcome>>

\* job_processor.py 254-258: cleanup when the video id is known, failure return
ExceptCleanup ==
    /\ pc = "cleanup_error"
    /\ IF video_id # None
       THEN Step("cleanup") /\ temp' = cleanup(temp, video_id)
       ELSE UNCHANGED <<trace, temp>>
    /\ result' = <<FALSE, NoPath, video_id>>
    /\ pc' = "returned"
    /\ UNCHANGED <<ledgerVars, artifacts, sent, OutsidePipeline, video_id, url,
                   download_result, transcript_result, analysis, folder_path, error_msg,
                   markCalls, dbRaised, failedStage, notifyOutcome>>

\* the steps of an invocation that found no success record
PipelineFresh ==
    \/ CheckPass \/ CheckRaises
    \/ ParseJob
    \/ \E caps \in CaptionSets : DownloadOk(caps)
    \/ \E partial \in BOOLEAN : DownloadFails(partial)
    \/ TranscribeCaptions
    \/ \E ok \in BOOLEAN : TranscribeWhisper(ok)
    \/ \E a \in Analyses : AnalyzeOk(a)
    \/ AnalyzeExhausted
    \/ \E written \in BOOLEAN : CreateNote(written)
    \/ \E ok \in BOOLEAN : CopyAudio(ok)
    \/ MarkSuccess \/ MarkSuccessRaises
    \/ \E delivered \in BOOLEAN : NotifySuccess(delivered)
    \/ CleanupSuccess
    \/ ExceptMark \/ ExceptMarkRaises
    \/ \E delivered \in BOOLEAN : ExceptNotify(delivered)
    \/ ExceptCleanup

Pipeline == CheckSkip \/ PipelineFresh

----------------------------------------------------------------------------
\* Local watcher (local_watcher.py)

\* JobProcessor.is_job_file: Path(file_path).suffix.lower() == ".txt"
is_job_file(p) == p \in {"a.txt", "b.txt"}

\* file_path.rename(archive_dir / file_path.name)
MoveToArchive(p) ==
    /\ archive' = [q \in DOMAIN archive \cup {p} |-> IF q = p THEN inbox[p] ELSE archive[q]]
    /\ inbox' = [q \in DOMAIN inbox \ {p} |-> inbox[q]]

\* a user drops a file into the inbox; a running observer queues on_created.
\* The handlers run to completion one after another, so a drop during a job is
\* seen by the watcher as a drop right after it
CreateFile(p, c) ==
    /\ handler = "none"
    /\ runs < MaxRuns
    /\ p \notin DOMAIN inbox
    /\ inbox' = [q \in DOMAIN inbox \cup {p} |-> IF q = p THEN c ELSE inbox[q]]
    /\ events' = IF wstate = "watching" THEN events \cup {p} ELSE events
    /\ UNCHANGED <<ledgerVars, harnessVars, worldVars, archive, wstate, handler, cur, todo,
                   processing, pc, argVars, localVars, histVars>>

\* LocalFolderWatcher.start, first half: process_existing_files lists the inbox
Start ==
    /\ wstate = "stopped"
    /\ wstate' = "draining"
    /\ todo' = {p \in DOMAIN inbox : is_job_file(p)}
    /\ UNCHANGED <<ledgerVars, harnessVars, worldVars, inbox, archive, handler, cur, events,
                   processing, pc, argVars, localVars, histVars>>

\* process_existing_files 115-128: read the next listed file, call the pipeline
ExistingPickup(p) ==
    /\ wstate = "draining"
    /\ handler = "none"
    /\ p \in todo
    /\ p \in DOMAIN inbox
    /\ runs < MaxRuns
    /\ todo' = todo \ {p}
    /\ handler' = "existing"
    /\ cur' = p
    /\ process_job_file(inbox[p], p, LocalIdentifier(p), "local")
    /\ UNCHANGED <<ledgerVars, harnessVars, worldVars, inbox, archive, wstate, events,
                   processing>>

ExistingDone_AlwaysArchives ==
    /\ handler = "existing"
    /\ pc = "returned"
    /\ MoveToArchive(cur)
    /\ handler' = "none"
    /\ cur' = None
    /\ process_job_file_exit
    /\ UNCHANGED <<ledgerVars, harnessVars, worldVars, wstate, events, todo, processing>>

\* process_existing_files 130-134: archive on success
ExistingDone ==
    /\ handler = "existing"
    /\ pc = "returned"
    /\ IF result[1]
       THEN MoveToArchive(cur)
       ELSE UNCHANGED <<inbox, archive>>
    /\ handler' = "none"
    /\ cur' = None
    /\ process_job_file_exit
    /\ UNCHANGED <<ledgerVars, harnessVars, worldVars, wstate, events, todo, processing>>

ExistingCaught_EndsLoop ==
    /\ handler = "existing"
    /\ pc = "raised"
    /\ handler' = "none"
    /\ cur' = None
    /\ todo' = {}
    /\ process_job_file_exit
    /\ UNCHANGED <<ledgerVars, harnessVars, worldVars, inbox, archive, wstate, events,
                   processing>>

\* process_existing_files 136-137: an exception of the job is logged, the
\* loop goes on to the next file
ExistingCaught ==
    /\ handler = "existing"
    /\ pc = "raised"
    /\ handler' = "none"
    /\ cur' = None
    /\ process_job_file_exit
    /\ UNCHANGED <<ledgerVars, harnessVars, worldVars, inbox, archive, wstate, events,
                   todo, processing>>

\* LocalFolderWatcher.start, second half: the observer starts
DrainDone ==
    /\ wstate = "draining"
    /\ handler = "none"
    /\ todo = {}
    /\ wstate' = "watching"
    /\ events' = {}
    /\ processing' = {}
    /\ UNCHANGED <<ledgerVars, harnessVars, worldVars, inbox, archive, handler, cur, todo,
                   pc, argVars, localVars, histVars>>

\* JobFileHandler.on_created 36-68: a job file not in flight is added to the
\* in-flight set, read, and handed to the pipeline
OnCreated(p) ==
    /\ wstate = "watching"
    /\ handler = "none"
    /\ p \in events
    /\ p \in DOMAIN inbox
    /\ is_job_file(p)
    /\ p \notin processing
    /\ runs < MaxRuns
    /\ events' = events \ {p}
    /\ processing' = processing \cup {p}
    /\ handler' = "on_created"
    /\ cur' = p
    /\ process_job_file(inbox[p], p, LocalIdentifier(p), "local")
    /\ UNCHANGED <<ledgerVars, harnessVars, worldVars, inbox, archive, wstate, todo>>

OnCreatedDone_ArchivesSkipped ==
    /\ handler = "on_created"
    /\ pc = "returned"
    /\ IF result[1] \/ trace = <<>>
       THEN MoveToArchive(cur)
       ELSE UNCHANGED <<inbox, archive>>
    /\ processing' = processing \ {cur}
    /\ handler' = "none"
    /\ cur' = None
    /\ process_job_file_exit
    /\ UNCHANGED <<ledgerVars, harnessVars, worldVars, wstate, events, todo>>

\* on_created 70-74 and 79-80: archive on success; finally leave the in-flight set
OnCreatedDone ==
    /\ handler = "on_created"
    /\ pc = "returned"
    /\ IF result[1]
       THEN MoveToArchive(cur)
       ELSE UNCHANGED <<inbox, archive>>
    /\ processing' = processing \ {cur}
    /\ handler' = "none"
    /\ cur' = None
    /\ process_job_file_exit
    /\ UNCHANGED <<ledgerVars, harnessVars, worldVars, wstate, events, todo>>

\* on_created 76-80: an exception of the job is logged; finally leave the
\* in-flight set; the observer goes on to the next event
OnCreatedCaught ==
    /\ handler = "on_created"
    /\ pc = "raised"
    /\ processing' = processing \ {cur}
    /\ handler' = "none"
    /\ cur' = None
    /\ process_job_file_exit
    /\ UNCHANGED <<ledgerVars, harnessVars, worldVars, inbox, archive, wstate, events, todo>>

\* LocalFolderWatcher.run 172-175: KeyboardInterrupt between jobs, stop()
Stop ==
    /\ wstate = "watching"
    /\ handler = "none"
    /\ wstate' = "stopped"
    /\ events' = {}
    /\ UNCHANGED <<ledgerVars, harnessVars, worldVars, inbox, archive, handler, cur, todo,
                   processing, pc, argVars, localVars, histVars>>

\* main.py 44-48: the signal handler calls sys.exit in the main thread while
\* process_existing_files has a job in flight there (no observer to join yet):
\* SystemExit is not an Exception, so neither the except clause of
\* process_job_file nor that of the watcher runs; the stack is gone, the files
\* and the ledger stay as they are. The process is followed up to this exit
SignalExit ==
    /\ handler = "existing"
    /\ wstate' = "exited"
    /\ handler' = "none"
    /\ cur' = None
    /\ todo' = {}
    /\ events' = {}
    /\ processing' = {}
    /\ process_job_file_exit
    /\ UNCHANGED <<ledgerVars, harnessVars, worldVars, inbox, archive>>

Watcher ==
    \/ \E p \in Paths, c \in JobContents : CreateFile(p, c)
    \/ Start
    \/ \E p \in Paths : ExistingPickup(p)
    \/ ExistingDone \/ ExistingCaught
    \/ DrainDone
    \/ \E p \in Paths : OnCreated(p)
    \/ OnCreatedDone \/ OnCreatedCaught
    \/ Stop
    \/ SignalExit

----------------------------------------------------------------------------
\* Specifications

NoCall == [called |-> FALSE, status |-> None, error_message |-> None, output_path |-> NoPath]

\* the service after construction: empty ledger, no job in flight
ServiceInit ==
    /\ ledger = {}
    /\ nextId = 1
    /\ lastCall = [j \in Identifiers |-> NoCall]
    /\ answer = <<>>
    /\ temp = {}
    /\ artifacts = <<>>
    /\ sent = <<>>
    /\ inbox = <<>>
    /\ archive = <<>>
    /\ wstate = "stopped"
    /\ handler = "none"
    /\ cur = None
    /\ events = {}
    /\ todo = {}
    /\ processing = {}
    /\ pc = "idle"
    /\ job_content = <<>>
    /\ job_filename = None
    /\ job_identifier = <<>>
    /\ account_id = None
    /\ video_id = None
    /\ url = NoUrl
    /\ download_result = NoDownload
    /\ transcript_result = NoTranscript
    /\ analysis = NoAnalysis
    /\ folder_path = NoPath
    /\ error_msg = None
    /\ result = <<>>
    /\ trace = <<>>
    /\ markCalls = 0
    /\ dbRaised = {}
    /\ failedStage = None
    /\ notifyOutcome = "none"
    /\ successWrites = [j \in Identifiers |-> 0]
    /\ priorSuccess = 0
    /\ runs = 0

\* no transcript is being merged or formatted on its own
TranscriptIdle ==
    /\ segments = <<>>
    /\ merged = <<>>
    /\ remerged = <<>>
    /\ interval_seconds = 0
    /\ lines = <<>>
    /\ tstate = "idle"

\* no analysis is being run on its own
RetryIdle ==
    /\ max_retries = 0
    /\ retry_delay = 0
    /\ attempt = 0
    /\ last_error = None
    /\ astate = "idle"
    /\ calls = 0
    /\ slept = <<>>

\* no response is being parsed on its own
ResponseIdle ==
    /\ response_text = <<>>
    /\ parsed = NoAnalysis
    /\ rstate = "idle"

Threads == {"t1", "t2"}

\* no event is being delivered to a handler on its own
HandlerIdle ==
    /\ hpc = [t \in Threads |-> "idle"]
    /\ hfile = [t \in Threads |-> None]
    /\ hlast = [t \in Threads |-> "none"]

Accounts == {"acc1", "acc2"}

\* no Dropbox account is tracked: the Dropbox watcher does nothing
DropboxIdle ==
    /\ tokens = [a \in Accounts |-> "none"]
    /\ cursors = [a \in Accounts |-> 0]
    /\ initialized_accounts = {}
    /\ dpc = "idle"
    /\ accounts_left = <<>>
    /\ cur_account = None
    /\ new_files = <<>>
    /\ files_left = <<>>
    /\ seen = [a \in Accounts |-> 0]
    /\ refreshes = [a \in Accounts |-> 0]
    /\ denied = {}
    /\ afterDenied = {}
    /\ tracked = {}
    /\ polled = {}
    /\ handled = <<>>
    /\ remote_ops = <<>>

NoToken == [access |-> 0, refresh |-> 0]

\* no job identifier is being compared
IdentIdle ==
    /\ jobs = <<>>
    /\ id_state = "idle"

\* no token file, nobody authorizing or refreshing
CredentialIdle ==
    /\ store = [a \in Accounts |-> NoToken]
    /\ issued = 0
    /\ rpc = "idle"
    /\ racct = None
    /\ rcopy = NoToken
    /\ cpc = "idle"
    /\ cnew = <<>>
    /\ cblast = [a \in Accounts |-> 0]

Init ==
    /\ ServiceInit
    /\ TranscriptIdle
    /\ RetryIdle
    /\ ResponseIdle
    /\ HandlerIdle
    /\ DropboxIdle
    /\ IdentIdle
    /\ CredentialIdle

Next == (Pipeline \/ Watcher) /\ UNCHANGED unitVars

Spec == Init /\ [][Next]_vars

----------------------------------------------------------------------------
\* LedgerSpec: ProcessedFilesDB driven by arbitrary calls

Statuses == {"success", "error", "skipped"}

\* a call of mark_processed that completes
MarkProcessedCall(j, status, file_hash, error_message, output_path) ==
    /\ nextId <= MaxWrites
    /\ mark_processed(j, status, "local", file_hash, error_message, output_path)
    /\ lastCall' = [lastCall EXCEPT ![j] =
          [called |-> TRUE, status |-> status, error_message |-> error_message,
           output_path |-> output_path]]
    /\ UNCHANGED <<answer, worldVars, watcherVars, pc, argVars, localVars, histVars>>

\* a call of is_processed
IsProcessedCall(j) ==
    /\ answer' = <<j, is_processed(j)>>
    /\ UNCHANGED <<ledgerVars, lastCall, worldVars, watcherVars, pc, argVars, localVars,
                   histVars>>

LedgerNext ==
    /\ \/ \E j \in Identifiers, status \in Statuses, file_hash \in {None, "v1"},
             error_message \in {None, "E1"}, output_path \in {NoPath, <<"T", 0>>} :
             MarkProcessedCall(j, status, file_hash, error_message, output_path)
       \/ \E j \in Identifiers : IsProcessedCall(j)
    /\ UNCHANGED unitVars

LedgerSpec == Init /\ [][LedgerNext]_vars

\* everything of the service stays as constructed while a unit runs on its own
ServiceVars == <<ledgerVars, harnessVars, worldVars, watcherVars, pc, argVars,
                 localVars, histVars>>

\* MergeSpec: _merge_segments applied to a caption segment list, then to its
\* own output

\* caption texts as _parse_vtt_captions can hand them over (never empty, 138),
\* and texts a direct caller can pass
Texts ==
    { <<" ">>, <<"a">>, <<"A">>, <<" ", "a">>, <<"b">>, <<"a", "a">>, <<"a", "b">> }

\* the k-th caption of a file: cues two seconds long, one second apart
Cue(k, text) == Segment(k - 1, k + 1, text)
CueList(texts) == [k \in 1..Len(texts) |-> Cue(k, texts[k])]

Hello == <<"h", "e", "l", "l", "o">>
HelloWorld == Hello \o <<" ", "w", "o", "r", "l", "d">>
Bye == <<"b", "y", "e">>
ExampleSegments == <<Segment(0, 2, Hello), Segment(1, 3, HelloWorld), Segment(5, 7, Bye)>>

MergeInit ==
    /\ ServiceInit
    /\ \/ \E n \in 0..MaxSegs : \E texts \in [1..n -> Texts] : segments = CueList(texts)
       \/ segments = ExampleSegments
    /\ merged = <<>>
    /\ remerged = <<>>
    /\ interval_seconds = 0
    /\ lines = <<>>
    /\ tstate = "input"
    /\ RetryIdle
    /\ ResponseIdle
    /\ HandlerIdle
    /\ DropboxIdle
    /\ IdentIdle
    /\ CredentialIdle

\* segments = self._merge_segments(segments)
MergeSegments ==
    /\ tstate = "input"
    /\ merged' = merge_segments(segments)
    /\ tstate' = "merged"
    /\ UNCHANGED <<ServiceVars, retryVars, responseVars, handlerVars, dropboxVars, identVars, credVars, segments, remerged, interval_seconds, lines>>

\* the merge pass run on its own output
MergeAgain ==
    /\ tstate = "merged"
    /\ remerged' = merge_segments(merged)
    /\ tstate' = "remerged"
    /\ UNCHANGED <<ServiceVars, retryVars, responseVars, handlerVars, dropboxVars, identVars, credVars, segments, merged, interval_seconds, lines>>

MergeNext == MergeSegments \/ MergeAgain

MergeSpec == MergeInit /\ [][MergeNext]_vars

\* FormatSpec: format_with_timestamps applied to a segment list

\* segment starts in seconds, as the caption file or Whisper gives them
Starts == {0, 30, 60, 65, 130, 3661}
Intervals == {30, 60}
StartList(starts) == [k \in 1..Len(starts) |-> Segment(starts[k], starts[k] + 2, <<"a">>)]

FormatInit ==
    /\ ServiceInit
    /\ \E n \in 0..MaxSegs : \E starts \in [1..n -> Starts] : segments = StartList(starts)
    /\ interval_seconds \in Intervals
    /\ merged = <<>>
    /\ remerged = <<>>
    /\ lines = <<>>
    /\ tstate = "input"
    /\ RetryIdle
    /\ ResponseIdle
    /\ HandlerIdle
    /\ DropboxIdle
    /\ IdentIdle
    /\ CredentialIdle

\* transcript_result.format_with_timestamps(interval_seconds)
FormatWithTimestamps ==
    /\ tstate = "input"
    /\ lines' = format_with_timestamps(segments, interval_seconds)
    /\ tstate' = "formatted"
    /\ UNCHANGED <<ServiceVars, retryVars, responseVars, handlerVars, dropboxVars, identVars, credVars, segments, merged, remerged, interval_seconds>>

FormatNext == FormatWithTimestamps

FormatSpec == FormatInit /\ [][FormatNext]_vars

\* RetrySpec: GeminiClient.analyze_video called on a client with any settings

\* the exceptions the call or the reading of response.text can raise
CallErrors == {"call_error", "text_error"}

RetryInit ==
    /\ ServiceInit
    /\ TranscriptIdle
    /\ ResponseIdle
    /\ HandlerIdle
    /\ DropboxIdle
    /\ IdentIdle
    /\ CredentialIdle
    /\ max_retries \in 0..MaxRetries
    /\ retry_delay \in 0..MaxDelay
    /\ attempt = 0
    /\ last_error = None
    /\ astate = "while"
    /\ calls = 0
    /\ slept = <<>>

backoff_delay_FromAttempt(base, k) == base * (2 ^ k)

\* gemini_client.py 144: delay = self.retry_delay * (2 ** (attempt - 1))
backoff_delay(base, k) == base * (2 ^ (k - 1))

\* gemini_client.py 79, 125: the loop test passes and generate_content is called
GenerateContent ==
    /\ astate = "while"
    /\ attempt < max_retries
    /\ astate' = "called"
    /\ calls' = calls + 1
    /\ UNCHANGED <<ServiceVars, transcriptVars, responseVars, handlerVars, dropboxVars, identVars, credVars, max_retries, retry_delay, attempt,
                   last_error, slept>>

\* gemini_client.py 131-134: the response has text: the parsed result is returned
ReturnParsed ==
    /\ astate = "called"
    /\ astate' = "returned"
    /\ UNCHANGED <<ServiceVars, transcriptVars, responseVars, handlerVars, dropboxVars, identVars, credVars, max_retries, retry_delay, attempt,
                   last_error, calls, slept>>

\* gemini_client.py 135-137: the response is empty: the fallback is returned
ReturnFallback ==
    /\ astate = "called"
    /\ astate' = "fallback"
    /\ UNCHANGED <<ServiceVars, transcriptVars, responseVars, handlerVars, dropboxVars, identVars, credVars, max_retries, retry_delay, attempt,
                   last_error, calls, slept>>

\* gemini_client.py 139-153: the call raised: count it, then sleep before the
\* next attempt if there is one
CallFails(e) ==
    /\ astate = "called"
    /\ last_error' = e
    /\ attempt' = attempt + 1
    /\ IF attempt + 1 < max_retries
       THEN slept' = Append(slept, backoff_delay(retry_delay, attempt + 1))
       ELSE slept' = slept
    /\ astate' = "while"
    /\ UNCHANGED <<ServiceVars, transcriptVars, responseVars, handlerVars, dropboxVars, identVars, credVars, max_retries, retry_delay, calls>>

\* gemini_client.py 79, 155-158: the loop test fails: all retries exhausted
RaiseExhausted ==
    /\ astate = "while"
    /\ ~(attempt < max_retries)
    /\ astate' = "raised"
    /\ UNCHANGED <<ServiceVars, transcriptVars, responseVars, handlerVars, dropboxVars, identVars, credVars, max_retries, retry_delay, attempt,
                   last_error, calls, slept>>

RetryNext ==
    \/ GenerateContent
    \/ ReturnParsed
    \/ ReturnFallback
    \/ \E e \in CallErrors : CallFails(e)
    \/ RaiseExhausted

\* every step of analyze_video is a blocking call that comes back: the loop
\* is never suspended for ever
RetrySpec == RetryInit /\ [][RetryNext]_vars /\ WF_vars(RetryNext)

\* ResponseSpec: _parse_response applied to response texts of every shape

TagChoices == { Tag("a", 90, TRUE), Tag("a", 90, FALSE), TagNoPrimary("a", 90), NotADict }
TagsValues ==
    {JNull, JString} \cup { JList(items) : items \in UNION { [1..n -> TagChoices] : n \in 0..MaxTags } }
Titles == {"T", JsonNull}
Summaries == {"S", JsonNull}

\* the text around a JSON value: bare, in a json fence, in a plain fence,
\* after an introduction
Wrap(shape, piece) ==
    IF shape = "bare" THEN <<piece>>
    ELSE IF shape = "json_fence" THEN <<FenceJson, piece, Fence>>
    ELSE IF shape = "fence" THEN <<Fence, piece, Fence>>
    ELSE <<Prose, FenceJson, piece, Fence>>
Shapes == {"bare", "json_fence", "fence", "prose_first"}

ResponseInit ==
    /\ ServiceInit
    /\ TranscriptIdle
    /\ RetryIdle
    /\ HandlerIdle
    /\ DropboxIdle
    /\ IdentIdle
    /\ CredentialIdle
    /\ \E shape \in Shapes :
          \/ \E keys \in SUBSET {"title", "summary", "tags"} :
             \E title \in Titles, summary \in Summaries, tags \in TagsValues :
                response_text = Wrap(shape, JsonObject([k \in keys |->
                    IF k = "title" THEN title ELSE IF k = "summary" THEN summary ELSE tags]))
          \/ response_text = Wrap(shape, JsonOther)
          \/ response_text = Wrap(shape, Prose)
    /\ parsed = NoAnalysis
    /\ rstate = "input"

\* result = self._parse_response(response.text, available_tags)
ParseResponse ==
    /\ rstate = "input"
    /\ parsed' = parse_response(response_text)
    /\ rstate' = "parsed"
    /\ UNCHANGED <<ServiceVars, transcriptVars, retryVars, handlerVars, dropboxVars, identVars, credVars, response_text>>

ResponseNext == ParseResponse

ResponseSpec == ResponseInit /\ [][ResponseNext]_vars

\* AnalysisSpec: process_job_file called on one job, with the analysis stage
\* followed attempt by attempt, on a client with any settings

\* response texts of each sort: well formed, parseable but incomplete (no
\* tags, a null title), not parseable, empty
WellFormed ==
    <<FenceJson, JsonObject([k \in {"title", "summary", "tags"} |->
        IF k = "title" THEN "T" ELSE IF k = "summary" THEN "S"
        ELSE JList(<<Tag("a", 90, TRUE)>>)]), Fence>>
Incomplete == <<JsonObject([k \in {"title"} |-> "T"])>>
NullTitle == <<JsonObject([k \in {"title", "summary"} |-> IF k = "title" THEN JsonNull ELSE "S"])>>
Unparseable == <<Prose>>
EmptyText == <<>>
ResponseTexts == {WellFormed, Incomplete, NullTitle, Unparseable, EmptyText}

AnalysisInit ==
    /\ ServiceInit
    /\ TranscriptIdle
    /\ ResponseIdle
    /\ HandlerIdle
    /\ DropboxIdle
    /\ IdentIdle
    /\ CredentialIdle
    /\ max_retries \in 0..MaxRetries
    /\ retry_delay \in 0..MaxDelay
    /\ attempt = 0
    /\ last_error = None
    /\ astate = "idle"
    /\ calls = 0
    /\ slept = <<>>

\* self.job_processor.process_job_file(job_content=content, ...)
ProcessJob ==
    /\ pc = "idle"
    /\ runs = 0
    /\ \E content \in JobContents :
          process_job_file(content, "a.txt", LocalIdentifier("a.txt"), "local")
    /\ UNCHANGED <<ledgerVars, harnessVars, worldVars, watcherVars>>

\* job_processor.py 140, gemini_client.py 76-77: analyze_video is entered
AnalyzeVideo ==
    /\ pc = "analyze"
    /\ astate = "idle"
    /\ astate' = "while"
    /\ attempt' = 0
    /\ last_error' = None
    /\ calls' = 0
    /\ slept' = <<>>
    /\ response_text' = <<>>
    /\ parsed' = NoAnalysis
    /\ rstate' = "idle"
    /\ UNCHANGED <<ServiceVars, transcriptVars, handlerVars, dropboxVars, identVars, credVars, max_retries, retry_delay>>

AnalyzeReturn_EmptyFails(text) ==
    /\ pc = "analyze"
    /\ astate = "called"
    /\ response_text' = text
    /\ rstate' = "parsed"
    /\ IF text = <<>>
       THEN /\ parsed' = NoAnalysis
            /\ attempt' = attempt + 1
            /\ astate' = "while"
            /\ UNCHANGED <<ServiceVars>>
       ELSE /\ parsed' = parse_response(text)
            /\ analysis' = parse_response(text)
            /\ Step("analyze")
            /\ pc' = "create_note"
            /\ astate' = "idle"
            /\ UNCHANGED <<ledgerVars, worldVars, OutsidePipeline, video_id, url,
                           download_result, transcript_result, folder_path, error_msg,
                           result, markCalls, dbRaised, failedStage, notifyOutcome, attempt>>
    /\ UNCHANGED <<transcriptVars, handlerVars, dropboxVars, identVars, credVars, max_retries, retry_delay, last_error, calls, slept>>

\* gemini_client.py 125-137, job_processor.py 140-154: generate_content gave
\* a response: its text is parsed, or the fallback taken when it is empty,
\* and analyze_video returns
AnalyzeReturn(text) ==
    /\ pc = "analyze"
    /\ astate = "called"
    /\ response_text' = text
    /\ rstate' = "parsed"
    /\ parsed' = IF text = <<>> THEN fallback_response(download_result.title)
                 ELSE parse_response(text)
    /\ analysis' = parsed'
    /\ Step("analyze")
    /\ pc' = "create_note"
    /\ astate' = "idle"
    /\ UNCHANGED <<ledgerVars, worldVars, OutsidePipeline, video_id, url, download_result,
                   transcript_result, folder_path, error_msg, result,
                   markCalls, dbRaised, failedStage, notifyOutcome>>
    /\ UNCHANGED <<transcriptVars, handlerVars, dropboxVars, identVars, credVars, max_retries, retry_delay, attempt, last_error, calls, slept>>

AnalyzeRaise_ReturnsFallback ==
    /\ pc = "analyze"
    /\ astate = "while"
    /\ ~(attempt < max_retries)
    /\ analysis' = fallback_response(download_result.title)
    /\ Step("analyze")
    /\ pc' = "create_note"
    /\ astate' = "idle"
    /\ UNCHANGED <<ledgerVars, worldVars, OutsidePipeline, video_id, url, download_result,
                   transcript_result, folder_path, error_msg, result,
                   markCalls, dbRaised, failedStage, notifyOutcome>>
    /\ UNCHANGED <<transcriptVars, handlerVars, dropboxVars, identVars, credVars, responseVars, max_retries, retry_delay, attempt,
                   last_error, calls, slept>>

\* gemini_client.py 79, 155-158, job_processor.py 223: every attempt failed:
\* analyze_video raises, the except clause of process_job_file takes over
AnalyzeRaise ==
    /\ pc = "analyze"
    /\ astate = "while"
    /\ ~(attempt < max_retries)
    /\ Step("analyze")
    /\ Raise("analyze", "Exception: Failed to analyze video after max_retries attempts")
    /\ astate' = "idle"
    /\ UNCHANGED <<ledgerVars, worldVars, OutsidePipeline, video_id, url, download_result,
                   transcript_result, analysis, folder_path, result,
                   markCalls, dbRaised, notifyOutcome>>
    /\ UNCHANGED <<transcriptVars, handlerVars, dropboxVars, identVars, credVars, responseVars, max_retries, retry_delay, attempt,
                   last_error, calls, slept>>

\* the stages of process_job_file around the analysis
AroundAnalysis ==
    \/ ProcessJob
    \/ CheckPass \/ CheckRaises
    \/ ParseJob
    \/ \E caps \in CaptionSets : DownloadOk(caps)
    \/ \E partial \in BOOLEAN : DownloadFails(partial)
    \/ TranscribeCaptions
    \/ \E ok \in BOOLEAN : TranscribeWhisper(ok)
    \/ \E written \in BOOLEAN : CreateNote(written)
    \/ \E ok \in BOOLEAN : CopyAudio(ok)
    \/ MarkSuccess \/ MarkSuccessRaises
    \/ \E delivered \in BOOLEAN : NotifySuccess(delivered)
    \/ CleanupSuccess
    \/ ExceptMark \/ ExceptMarkRaises
    \/ \E delivered \in BOOLEAN : ExceptNotify(delivered)
    \/ ExceptCleanup

AnalysisNext ==
    \/ AroundAnalysis /\ UNCHANGED unitVars
    \/ AnalyzeVideo
    \/ pc = "analyze" /\ GenerateContent
    \/ pc = "analyze" /\ \E e \in CallErrors : CallFails(e)
    \/ \E text \in ResponseTexts : AnalyzeReturn(text)
    \/ AnalyzeRaise

AnalysisSpec == AnalysisInit /\ [][AnalysisNext]_vars

\* HandlerSpec: a JobFileHandler receiving on_created events, also
\* overlapping ones; the orchestrator is seen from the handler as a call that
\* returns success or not, or raises

\* paths events come for: the job files and a file that is none
EventPaths == Paths \cup {"notes.md"}
\* how the body of the try block ends: open raised, the job succeeded and
\* the file was moved, the job returned failure, process_job_file raised
Outcomes == {"read_error", "success", "failed", "raised"}

\* a file is written into the inbox
FileAppears(p, c) ==
    /\ p \notin DOMAIN inbox
    /\ p \notin DOMAIN archive
    /\ inbox' = [q \in DOMAIN inbox \cup {p} |-> IF q = p THEN c ELSE inbox[q]]
    /\ UNCHANGED <<ledgerVars, harnessVars, worldVars, archive, wstate, handler, cur,
                   events, todo, processing, pc, argVars, localVars, histVars,
                   transcriptVars, retryVars, responseVars, dropboxVars, identVars, credVars, handlerVars>>

\* local_watcher.py 36-47: the early returns of on_created
OnCreatedCheck(t, p) ==
    /\ hpc[t] = "idle"
    /\ IF ~is_job_file(p)
       THEN /\ hlast' = [hlast EXCEPT ![t] = "not_job"]
            /\ UNCHANGED <<hpc, hfile>>
       ELSE IF p \in processing
       THEN /\ hlast' = [hlast EXCEPT ![t] = "in_flight"]
            /\ UNCHANGED <<hpc, hfile>>
       ELSE /\ hpc' = [hpc EXCEPT ![t] = "add"]
            /\ hfile' = [hfile EXCEPT ![t] = p]
            /\ hlast' = [hlast EXCEPT ![t] = "none"]
    /\ UNCHANGED <<ServiceVars, transcriptVars, retryVars, responseVars, dropboxVars, identVars, credVars>>

\* local_watcher.py 49: self.processing.add(str(file_path))
OnCreatedAdd(t) ==
    /\ hpc[t] = "add"
    /\ processing' = processing \cup {hfile[t]}
    /\ hpc' = [hpc EXCEPT ![t] = "try"]
    /\ UNCHANGED <<ledgerVars, harnessVars, worldVars, inbox, archive, wstate, handler, cur,
                   events, todo, pc, argVars, localVars, histVars,
                   transcriptVars, retryVars, responseVars, dropboxVars, identVars, credVars, hfile, hlast>>

\* local_watcher.py 51-77: the try block and its except clause
OnCreatedBody(t, outcome) ==
    /\ hpc[t] = "try"
    /\ outcome # "read_error" => hfile[t] \in DOMAIN inbox
    /\ IF outcome = "success"
       THEN MoveToArchive(hfile[t])
       ELSE UNCHANGED <<inbox, archive>>
    /\ hpc' = [hpc EXCEPT ![t] = "finally"]
    /\ hlast' = [hlast EXCEPT ![t] = outcome]
    /\ UNCHANGED <<ledgerVars, harnessVars, worldVars, wstate, handler, cur,
                   events, todo, processing, pc, argVars, localVars, histVars,
                   transcriptVars, retryVars, responseVars, dropboxVars, identVars, credVars, hfile>>

OnCreatedFinally_OnlyOnSuccess(t) ==
    /\ hpc[t] = "finally"
    /\ processing' = IF hlast[t] = "success" THEN processing \ {hfile[t]} ELSE processing
    /\ hpc' = [hpc EXCEPT ![t] = "idle"]
    /\ hfile' = [hfile EXCEPT ![t] = None]
    /\ UNCHANGED <<ledgerVars, harnessVars, worldVars, inbox, archive, wstate, handler, cur,
                   events, todo, pc, argVars, localVars, histVars,
                   transcriptVars, retryVars, responseVars, dropboxVars, identVars, credVars, hlast>>

\* local_watcher.py 79-80: finally: self.processing.discard(str(file_path))
OnCreatedFinally(t) ==
    /\ hpc[t] = "finally"
    /\ processing' = processing \ {hfile[t]}
    /\ hpc' = [hpc EXCEPT ![t] = "idle"]
    /\ hfile' = [hfile EXCEPT ![t] = None]
    /\ UNCHANGED <<ledgerVars, harnessVars, worldVars, inbox, archive, wstate, handler, cur,
                   events, todo, pc, argVars, localVars, histVars,
                   transcriptVars, retryVars, responseVars, dropboxVars, identVars, credVars, hlast>>

HandlerNext ==
    \/ \E p \in Paths, c \in JobContents : FileAppears(p, c)
    \/ \E t \in Threads, p \in EventPaths : OnCreatedCheck(t, p)
    \/ \E t \in Threads : OnCreatedAdd(t)
    \/ \E t \in Threads, outcome \in Outcomes : OnCreatedBody(t, outcome)
    \/ \E t \in Threads : OnCreatedFinally(t)

HandlerSpec == Init /\ [][HandlerNext]_vars

\* StartupSpec: files are put into the inbox, then the watcher is started
\* and followed until the observer runs

StartupNext ==
    \/ wstate = "stopped" /\ \E p \in Paths, c \in JobContents : CreateFile(p, c)
    \/ Start
    \/ \E p \in Paths : ExistingPickup(p)
    \/ PipelineFresh
    \/ ExistingDone \/ ExistingCaught
    \/ DrainDone

\* start() runs to its end: every step of it is a call that comes back
StartupSpec ==
    /\ Init
    /\ [][StartupNext /\ UNCHANGED unitVars]_vars
    /\ WF_vars(StartupNext /\ UNCHANGED unitVars)

\* ---------------------------------------------------------------------
\* DropboxWatcher (dropbox_watcher.py)
\*
\* tokens[a] is the token file of account a as Dropbox sees it: "valid",
\* "expired" (users_get_current_account raises AuthError) or "none" (no
\* token file).  The Inbox of every account lists as MaxPages pages with one
\* job file each; the cursor returned with page k is k, and 0 stands for no
\* cursor.  seen[a] is the last page Dropbox has delivered for a.  refreshes,
\* denied, afterDenied, tracked and polled record what the current tick has
\* done, handled the results of the files of the current account, and
\* remote_ops what its last initialize_folder_structure or
\* download_and_process_file did with the client it had.

TokenStates == {"valid", "expired"}
AccountOrder == <<"acc1", "acc2">>
FileResults == {"success", "failed", "raised"}

\* storage.py 117-132
list_accounts == SelectSeq(AccountOrder, LAMBDA a : tokens[a] # "none")

Range(f) == {f[i] : i \in DOMAIN f}

JobFile(a, k) == <<a, k>>

\* dropbox_watcher.py 49-87: the outcomes of one call.  A valid token passes
\* the test call; an expired one makes the test call raise AuthError, and
\* refresh_token is attempted once: on success a client is built from the
\* stored token without a second test, on failure None is returned, and with
\* the token file gone after the refresh token_data["access_token"] raises
\* out of the except clause.
get_dropbox_client(a) ==
    CASE tokens[a] = "none" ->
           {[client |-> "none", token |-> "none", refreshed |-> 0, called |-> 0]}
      [] tokens[a] = "valid" ->
           {[client |-> "ok", token |-> "valid", refreshed |-> 0, called |-> 1]}
      [] tokens[a] = "expired" ->
           {[client |-> "ok", token |-> "valid", refreshed |-> 1, called |-> 1],
            [client |-> "none", token |-> "expired", refreshed |-> 1, called |-> 1],
            [client |-> "raised", token |-> "none", refreshed |-> 1, called |-> 1]}

\* what one call of get_dropbox_client leaves behind
ClientCall(a, g) ==
    /\ tokens' = [tokens EXCEPT ![a] = g.token]
    /\ refreshes' = [refreshes EXCEPT ![a] = @ + g.refreshed]
    /\ afterDenied' = IF a \in denied /\ g.called + g.refreshed > 0
                      THEN afterDenied \cup {a} ELSE afterDenied
    /\ denied' = IF g.client = "ok" THEN denied ELSE denied \cup {a}

\* a watcher over tracked accounts, about to poll for the first time
DropboxInit ==
    /\ ServiceInit
    /\ TranscriptIdle
    /\ RetryIdle
    /\ ResponseIdle
    /\ HandlerIdle
    /\ IdentIdle
    /\ CredentialIdle
    /\ tokens \in [Accounts -> TokenStates]
    /\ cursors = [a \in Accounts |-> 0]
    /\ initialized_accounts = {}
    /\ dpc = "idle"
    /\ accounts_left = <<>>
    /\ cur_account = None
    /\ new_files = <<>>
    /\ files_left = <<>>
    /\ seen = [a \in Accounts |-> 0]
    /\ refreshes = [a \in Accounts |-> 0]
    /\ denied = {}
    /\ afterDenied = {}
    /\ tracked = {}
    /\ polled = {}
    /\ handled = <<>>
    /\ remote_ops = <<>>

DropboxOthers == <<ServiceVars, transcriptVars, retryVars, responseVars, handlerVars,
                   identVars, credVars>>

\* dropbox_watcher.py 421-432: accounts = list_accounts(); no account, return 0
PollOnce ==
    /\ dpc \in {"idle", "sleep"}
    /\ accounts_left' = list_accounts
    /\ dpc' = IF list_accounts = <<>> THEN "sleep" ELSE "loop"
    /\ cur_account' = None
    /\ tracked' = Range(list_accounts)
    /\ refreshes' = [a \in Accounts |-> 0]
    /\ denied' = {}
    /\ afterDenied' = {}
    /\ polled' = {}
    /\ handled' = <<>>
    /\ UNCHANGED <<DropboxOthers, remote_ops, tokens, cursors, initialized_accounts, new_files,
                   files_left, seen>>

\* dropbox_watcher.py 435-438 and 388-398: the next account of the loop enters
\* process_account; without token data it returns 0, otherwise the folders
\* are initialized on the first poll of the account
ProcessAccount ==
    /\ dpc = "loop"
    /\ accounts_left # <<>>
    /\ cur_account' = Head(accounts_left)
    /\ accounts_left' = Tail(accounts_left)
    /\ polled' = polled \cup {Head(accounts_left)}
    /\ dpc' = IF tokens[Head(accounts_left)] = "none" THEN "loop"
              ELSE IF Head(accounts_left) \in initialized_accounts THEN "list"
              ELSE "init"
    /\ handled' = <<>>
    /\ remote_ops' = <<>>
    /\ UNCHANGED <<DropboxOthers, tokens, cursors, initialized_accounts, new_files,
                   files_left, seen, refreshes, denied, afterDenied, tracked>>

\* dropbox_watcher.py 285-377: what the creation of the folders, of tags.txt
\* and of the README met.  An ApiError (the conflict of something that exists
\* already, or another one) is caught next to the call and the creation goes
\* on to initialized_accounts.add; any other exception leaves the block
\* through the outer except clause before the add.
Creations == {"created", "conflict", "exception"}

scaffold_done_NoConflict(creation) == creation = "created"

scaffold_done(creation) == creation # "exception"

\* dropbox_watcher.py 163-190: the remote operations of one
\* download_and_process_file that has a client.  The file is downloaded and
\* handed to the orchestrator; only if that returned success the output
\* folder is uploaded and then the job file moved to /Archive/, each of the
\* two catching its own failure and returning False, which is not looked at.
file_ops_IgnoresSuccess(res, up, mv) ==
    <<"download", IF up THEN "upload" ELSE "upload_failed",
      IF mv THEN "move" ELSE "move_failed">>

file_ops(res, up, mv) ==
    IF res = "success"
    THEN <<"download", IF up THEN "upload" ELSE "upload_failed",
           IF mv THEN "move" ELSE "move_failed">>
    ELSE <<"download">>

\* dropbox_watcher.py 265-377: no client, return False; the folders, tags.txt
\* and README are created and the account is recorded, or an exception of
\* the creation is caught and False returned; process_account ignores the
\* result
InitializeFolderStructure(g, creation) ==
    /\ dpc = "init"
    /\ ClientCall(cur_account, g)
    /\ dpc' = IF g.client = "raised" THEN "raised" ELSE "list"
    /\ remote_ops' = IF g.client = "ok" THEN <<creation>> ELSE <<>>
    /\ initialized_accounts' = IF g.client = "ok" /\ scaffold_done(creation)
                               THEN initialized_accounts \cup {cur_account}
                               ELSE initialized_accounts
    /\ UNCHANGED <<DropboxOthers, cursors, accounts_left, cur_account, new_files,
                   files_left, seen, tracked, polled, handled>>

\* dropbox_watcher.py 98-105: dbx = get_dropbox_client(); no client, return []
\* and process_account returns 0; else new_files = [], cursor = cursors.get()
ListNewFiles(g) ==
    /\ dpc = "list"
    /\ ClientCall(cur_account, g)
    /\ dpc' = CASE g.client = "raised" -> "raised"
                [] g.client = "none" -> "loop"
                [] g.client = "ok" -> "page"
    /\ new_files' = <<>>
    /\ UNCHANGED <<DropboxOthers, remote_ops, cursors, initialized_accounts, accounts_left,
                   cur_account, files_left, seen, tracked, polled, handled>>

\* dropbox_watcher.py 107-145: one request of the listing.  Without a cursor
\* files_list_folder("/Inbox") delivers page 1, with cursor k
\* files_list_folder_continue delivers page k+1, or nothing new after the last
\* page.  The cursor of the page is stored at once, its job files are
\* collected, and has_more asks for the next request.  An exception of the
\* request ends the listing with [], so process_account returns 0.
ListPage(delivered) ==
    LET a == cur_account
        k == IF cursors[a] < MaxPages THEN cursors[a] + 1 ELSE cursors[a]
        entries == IF cursors[a] < MaxPages THEN <<JobFile(a, k)>> ELSE <<>>
        has_more == k < MaxPages
    IN  /\ dpc = "page"
        /\ IF delivered
           THEN /\ cursors' = [cursors EXCEPT ![a] = k]
                /\ seen' = [seen EXCEPT ![a] = k]
                /\ new_files' = new_files \o entries
                /\ files_left' = IF has_more THEN files_left ELSE new_files \o entries
                /\ dpc' = IF has_more THEN "page"
                          ELSE IF new_files \o entries = <<>> THEN "loop" ELSE "files"
           ELSE /\ new_files' = <<>>
                /\ dpc' = "loop"
                /\ UNCHANGED <<cursors, seen, files_left>>
        /\ UNCHANGED <<DropboxOthers, remote_ops, tokens, initialized_accounts, accounts_left,
                       cur_account, refreshes, denied, afterDenied, tracked, polled,
                       handled>>

\* dropbox_watcher.py 408-417 and 147-195: the next file of new_files goes to
\* download_and_process_file.  Without a client it returns False; an
\* exception of the download or of the orchestrator is caught in it and
\* False returned; an exception of get_dropbox_client is caught by the loop
\* of process_account.  In every case the loop goes on to the next file.
DownloadAndProcessFile(g, res, up, mv) ==
    /\ dpc = "files"
    /\ files_left # <<>>
    /\ ClientCall(cur_account, g)
    /\ remote_ops' = IF g.client = "ok" THEN file_ops(res, up, mv) ELSE <<>>
    /\ handled' = Append(handled, IF g.client = "ok" THEN res
                                   ELSE IF g.client = "none" THEN "failed"
                                   ELSE "raised")
    /\ files_left' = Tail(files_left)
    /\ dpc' = IF Tail(files_left) = <<>> THEN "loop" ELSE "files"
    /\ UNCHANGED <<DropboxOthers, cursors, initialized_accounts, accounts_left,
                   cur_account, new_files, seen, tracked, polled>>

PollOnceExcept_Aborts ==
    /\ dpc = "raised"
    /\ dpc' = "sleep"
    /\ UNCHANGED <<DropboxOthers, remote_ops, tokens, cursors, initialized_accounts, accounts_left,
                   cur_account, new_files, files_left, seen, refreshes, denied,
                   afterDenied, tracked, polled, handled>>

\* dropbox_watcher.py 439-441: except Exception: log, on to the next account
PollOnceExcept ==
    /\ dpc = "raised"
    /\ dpc' = "loop"
    /\ UNCHANGED <<DropboxOthers, remote_ops, tokens, cursors, initialized_accounts, accounts_left,
                   cur_account, new_files, files_left, seen, refreshes, denied,
                   afterDenied, tracked, polled, handled>>

\* dropbox_watcher.py 443 and 459-461: the loop is over, poll_once returns and
\* run sleeps for poll_interval
PollDone ==
    /\ dpc = "loop"
    /\ accounts_left = <<>>
    /\ dpc' = "sleep"
    /\ cur_account' = None
    /\ remote_ops' = <<>>
    /\ UNCHANGED <<DropboxOthers, tokens, cursors, initialized_accounts, accounts_left,
                   new_files, files_left, seen, refreshes, denied, afterDenied, tracked,
                   polled, handled>>

\* between two ticks a valid token expires, or the owner of an account
\* without token authorizes again
TokenChange(a, v) ==
    /\ dpc = "sleep"
    /\ \/ tokens[a] = "valid" /\ v = "expired"
       \/ tokens[a] = "none" /\ v = "valid"
    /\ tokens' = [tokens EXCEPT ![a] = v]
    /\ UNCHANGED <<DropboxOthers, remote_ops, cursors, initialized_accounts, dpc,
                   accounts_left, cur_account, new_files, files_left, seen, refreshes,
                   denied, afterDenied, tracked, polled, handled>>

\* dropbox_watcher.py 21-47: the process ends at any point and is started
\* again: a new DropboxWatcher with cursors = {} and initialized_accounts =
\* set(); the token files and what Dropbox has delivered stay
Restart ==
    /\ dpc # "idle"
    /\ cursors' = [a \in Accounts |-> 0]
    /\ initialized_accounts' = {}
    /\ dpc' = "idle"
    /\ accounts_left' = <<>>
    /\ cur_account' = None
    /\ new_files' = <<>>
    /\ files_left' = <<>>
    /\ refreshes' = [a \in Accounts |-> 0]
    /\ denied' = {}
    /\ afterDenied' = {}
    /\ tracked' = {}
    /\ polled' = {}
    /\ handled' = <<>>
    /\ remote_ops' = <<>>
    /\ UNCHANGED <<DropboxOthers, tokens, seen>>

DropboxNext ==
    \/ PollOnce
    \/ ProcessAccount
    \/ /\ dpc = "init"
       /\ \E g \in get_dropbox_client(cur_account), creation \in Creations :
              InitializeFolderStructure(g, creation)
    \/ /\ dpc = "list"
       /\ \E g \in get_dropbox_client(cur_account) : ListNewFiles(g)
    \/ \E delivered \in BOOLEAN : ListPage(delivered)
    \/ /\ dpc = "files"
       /\ \E g \in get_dropbox_client(cur_account), res \in FileResults,
              up \in BOOLEAN, mv \in BOOLEAN :
              DownloadAndProcessFile(g, res, up, mv)
    \/ PollOnceExcept
    \/ PollDone
    \/ \E a \in Accounts, v \in TokenStates : TokenChange(a, v)
    \/ Restart

DropboxSpec == DropboxInit /\ [][DropboxNext]_vars

\* ---------------------------------------------------------------------
\* Job identifiers as the strings the watchers build.  A string is a
\* sequence of symbols: the separators ":" and "/", the words "local",
\* "dropbox", "dbid" and "id", and the letters "a" and "b".

\* sequences over a set of symbols, up to a length
StringsUpTo(syms, n) == UNION {[1..k -> syms] : k \in 0..n}

\* absolute paths of job files: any symbol can occur in a file name
LocalPaths == {<<"/">> \o t : t \in StringsUpTo({"a", ":", "dbid", "/"}, MaxIdLen)}

\* the identifiers Dropbox hands out: account_id "dbid:..." and file id
\* "id:...", the part after the prefix made of letters
IdBodies == StringsUpTo({"a", "b"}, MaxIdLen) \ {<<>>}
AccountIds == {<<"dbid", ":">> \o t : t \in IdBodies}
FileIds == {<<"id", ":">> \o t : t \in IdBodies}

\* local_watcher.py 65, 122: f"local:{file_path.absolute()}"
local_identifier(path) == <<"local", ":">> \o path

dropbox_identifier_FileOnly(acct, file_id) == <<"dropbox", ":">> \o file_id

\* dropbox_watcher.py 172: f"dropbox:{account_id}:{file_metadata.id}"
dropbox_identifier(acct, file_id) == <<"dropbox", ":">> \o acct \o <<":">> \o file_id

LocalJob(path) == [watcher |-> "local", path |-> path]
DropboxJob(acct, file_id) == [watcher |-> "dropbox", account |-> acct, file |-> file_id]
Jobs ==
    {LocalJob(path) : path \in LocalPaths} \cup
    {DropboxJob(acct, file_id) : acct \in AccountIds, file_id \in FileIds}

\* the job_identifier argument the watcher of a job passes to process_job_file
IdentifierOf(job) ==
    IF job.watcher = "local" THEN local_identifier(job.path)
    ELSE dropbox_identifier(job.account, job.file)

\* two jobs, found by either watcher
IdentInit ==
    /\ ServiceInit
    /\ TranscriptIdle
    /\ RetryIdle
    /\ ResponseIdle
    /\ HandlerIdle
    /\ DropboxIdle
    /\ CredentialIdle
    /\ jobs \in Jobs \X Jobs
    /\ id_state = "found"

IdentOthers == <<worldVars, watcherVars, pc, argVars, localVars, histVars, transcriptVars,
                 retryVars, responseVars, handlerVars, dropboxVars, credVars>>

\* job_processor.py 191-198: the first job succeeds and is recorded
RecordFirstJob ==
    /\ id_state = "found"
    /\ mark_processed(IdentifierOf(jobs[1]), "success", None, "v1", None, <<"T", 0>>)
    /\ id_state' = "recorded"
    /\ UNCHANGED <<IdentOthers, harnessVars, jobs>>

\* job_processor.py 92: the check at the start of the second job
CheckSecondJob ==
    /\ id_state = "recorded"
    /\ answer' = <<IdentifierOf(jobs[2]), is_processed(IdentifierOf(jobs[2]))>>
    /\ id_state' = "checked"
    /\ UNCHANGED <<IdentOthers, ledgerVars, lastCall, jobs>>

IdentNext == RecordFirstJob \/ CheckSecondJob

IdentSpec == IdentInit /\ [][IdentNext]_vars

\* ---------------------------------------------------------------------
\* The token files and the two threads that write them (main.py 234-243):
\* the poller, whose get_dropbox_client calls OAuthManager.refresh_token, and
\* the OAuth callback server, whose handler calls exchange_code_for_token.
\* store[a] is the token file of account a, NoToken when there is none; the
\* tokens the endpoint issues are numbered 1, 2, ...

TokenRecord(access, refresh) == [access |-> access, refresh |-> refresh]

CredentialInit ==
    /\ ServiceInit
    /\ TranscriptIdle
    /\ RetryIdle
    /\ ResponseIdle
    /\ HandlerIdle
    /\ DropboxIdle
    /\ IdentIdle
    /\ CredentialIdle

CredOthers == <<ServiceVars, transcriptVars, retryVars, responseVars, handlerVars,
                dropboxVars, identVars>>

\* dropbox_oauth.py 292-296: token_data = load_token(account_id); without a
\* record or a refresh token refresh_token returns False
RefreshLoad(a) ==
    /\ rpc = "idle"
    /\ store[a] # NoToken
    /\ racct' = a
    /\ rcopy' = store[a]
    /\ rpc' = "post"
    /\ UNCHANGED <<CredOthers, store, issued, cpc, cnew, cblast>>

\* dropbox_oauth.py 298-313: the POST to the token endpoint; the new access
\* token is put into the record loaded before; an exception returns False
RefreshPost(ok) ==
    /\ rpc = "post"
    /\ IF ok /\ issued < MaxTokens
       THEN /\ issued' = issued + 1
            /\ rcopy' = TokenRecord(issued + 1, rcopy.refresh)
            /\ rpc' = "save"
            /\ UNCHANGED racct
       ELSE /\ rpc' = "idle"
            /\ rcopy' = NoToken
            /\ racct' = None
            /\ UNCHANGED issued
    /\ UNCHANGED <<CredOthers, store, cpc, cnew, cblast>>

\* dropbox_oauth.py 314 and storage.py 45-77: save_token writes the whole
\* record over the token file
RefreshSave ==
    /\ rpc = "save"
    /\ store' = [store EXCEPT ![racct] = rcopy]
    /\ rpc' = "idle"
    /\ rcopy' = NoToken
    /\ racct' = None
    /\ UNCHANGED <<CredOthers, issued, cpc, cnew, cblast>>

\* dropbox_oauth.py 198-238: the code is exchanged for an access and a
\* refresh token, the account of the token is asked for, and an account that
\* is not on the allowlist is turned away
ExchangeCode(a, allowed) ==
    /\ cpc = "idle"
    /\ issued < MaxTokens
    /\ issued' = issued + 1
    /\ IF allowed
       THEN /\ cnew' = <<a, TokenRecord(issued + 1, issued + 1)>>
            /\ cpc' = "save"
       ELSE UNCHANGED <<cnew, cpc>>
    /\ UNCHANGED <<CredOthers, store, rpc, racct, rcopy, cblast>>

\* dropbox_oauth.py 240-251 and storage.py 45-77: save_token writes the
\* record of the account, whether or not the account had one
ExchangeSave ==
    /\ cpc = "save"
    /\ store' = [store EXCEPT ![cnew[1]] = cnew[2]]
    /\ cblast' = [cblast EXCEPT ![cnew[1]] = cnew[2].refresh]
    /\ cpc' = "idle"
    /\ cnew' = <<>>
    /\ UNCHANGED <<CredOthers, issued, rpc, racct, rcopy>>

CredentialNext ==
    \/ \E a \in Accounts : RefreshLoad(a)
    \/ \E ok \in BOOLEAN : RefreshPost(ok)
    \/ RefreshSave
    \/ \E a \in Accounts, allowed \in BOOLEAN : ExchangeCode(a, allowed)
    \/ ExchangeSave

CredentialSpec == CredentialInit /\ [][CredentialNext]_vars

\* ParseSpec: process_job_file called with job files of every shape, followed
\* up to the end of the resolve stage

\* lines of a job file
JobLines ==
    { <<>>,
      <<Space>>,
      <<Hash, Space, Url(TRUE, "short", "v1")>>,
      <<Space, Hash, Url(TRUE, "watch", "v1")>>,
      <<Url(TRUE, "short", "v2")>>,
      <<Word, Space, Url(TRUE, "short", "v1"), Space>>,
      <<Word>>,
      <<Url(TRUE, "other", None)>>,
      <<Url(TRUE, "param", "v1")>>,
      <<Word, Space, Url(TRUE, "param", "v2"), Space, Word>>,
      <<Url(TRUE, "watch", "bad")>>,
      <<Url(FALSE, "mobile", "v1")>>,
      <<Url(TRUE, "short", "v1"), Space, Url(TRUE, "embed", "v2")>>,
      <<Word, Space, Url(TRUE, "other", None), Space, Url(TRUE, "param", "v1")>> }

\* self.job_processor.process_job_file(job_content=content, ...)
ProcessJobContent ==
    /\ pc = "idle"
    /\ \E n \in 0..MaxLines : \E content \in [1..n -> JobLines] :
          process_job_file(content, "a.txt", LocalIdentifier("a.txt"), "local")
    /\ UNCHANGED <<ledgerVars, harnessVars, worldVars, watcherVars>>

ParseNext == (ProcessJobContent \/ CheckPass \/ ParseJob) /\ UNCHANGED unitVars

ParseSpec == Init /\ [][ParseNext]_vars

----------------------------------------------------------------------------
\* Claims about the ledger (checked under LedgerSpec)

RecordsOf(j) == {r \in ledger : r.file_path = j}

\* C3: is_processed(J) is true if and only if the ledger holds a record for J
\* whose status is success: it is false with no record and with a record of
\* status error or any other status.
C3_IsProcessedIffSuccessRecord ==
    \A j \in Identifiers :
        is_processed(j) <=> (\E r \in ledger : r.file_path = j /\ r.status = "success")

\* C3 witness: a call has just answered false for an identifier whose record
\* has status error, while another identifier with a success record is processed.
C3_Witness ==
    /\ answer # <<>>
    /\ answer[2] = FALSE
    /\ ~is_processed(answer[1])
    /\ \E r \in ledger : r.file_path = answer[1] /\ r.status = "error"
    /\ \E k \in Identifiers : k # answer[1] /\ is_processed(k)

\* C4: after any sequence of mark_processed calls the ledger holds at most one
\* record per identifier, present exactly when the identifier was ever marked,
\* and carrying the status, error message and output path of the most recent
\* call for that identifier; a call for another identifier never changes it.
C4_UpsertKeepsLastCall ==
    \A j \in Identifiers :
        /\ Cardinality(RecordsOf(j)) <= 1
        /\ lastCall[j].called <=> RecordsOf(j) # {}
        /\ \A r \in RecordsOf(j) :
              /\ r.status = lastCall[j].status
              /\ r.error_message = lastCall[j].error_message
              /\ r.output_path = lastCall[j].output_path

\* C4 witness: an identifier marked twice (its first row, id 2, was replaced by
\* row 3 with another status) while the other identifier keeps its row 1.
C4_Witness ==
    /\ nextId = 4
    /\ \E j, k \in Identifiers :
          /\ j # k
          /\ \E r \in RecordsOf(j) : r.id = 3 /\ r.status = "success" /\ r.error_message = None
          /\ \E r \in RecordsOf(k) : r.id = 1

----------------------------------------------------------------------------
\* Claims about the pipeline (checked under Spec)

Finished == pc \in {"returned", "raised"}
\* the invocation took the early return of line 94
Skipped == pc = "returned" /\ markCalls = 0 /\ trace = <<>>
Stages(t) == {t[i] : i \in 1..Len(t)}
MainStages == Stages(PipelineOrder)
Rank(stage) == CHOOSE i \in 1..Len(PipelineOrder) : PipelineOrder[i] = stage
IsMainStage(stage) == stage \in MainStages
MainTrace == SelectSeq(trace, IsMainStage)
\* the stages whose failure the pipeline reports as a job failure
StageFailures == {"resolve", "download", "transcribe", "analyze", "create_note", "copy_audio"}

\* C1: for every identifier the ledger receives at most one write with status
\* success over all invocations, and an invocation that starts after a success
\* write for its identifier performs no download, transcription or analysis.
C1_ExactlyOneSuccessWrite ==
    /\ \A j \in Identifiers : successWrites[j] <= 1
    /\ (pc # "idle" /\ priorSuccess > 0) =>
          Stages(trace) \cap {"download", "transcribe", "analyze"} = {}

\* C2: an invocation that is not skipped and in which every ledger call
\* completes calls mark_processed exactly once before it returns, also when a
\* step after the success write fails.
C2_MarkProcessedExactlyOnce ==
    (pc = "returned" /\ ~Skipped /\ dbRaised = {}) => markCalls = 1

\* C5: when the check of line 92 finds the identifier processed, the invocation
\* (unless the process is stopped at that point) returns (False, None, None)
\* in that step and nothing else changes: no URL
\* is resolved, nothing is downloaded, the ledger, the notifications, the temp
\* files, the artifacts, the inbox and the archive stay as they were.
C5_SkipChangesNothing ==
    [][(pc = "check" /\ is_processed(job_identifier) /\ pc' \notin {"check", "except"}) =>
          /\ pc' = "returned" \/ (pc' = "idle" /\ wstate' = "exited")
          /\ pc' = "returned" => result' = <<FALSE, NoPath, None>>
          /\ UNCHANGED <<ledger, nextId, temp, artifacts, sent, inbox, archive, url,
                         video_id, download_result, trace, markCalls>>]_vars

\* C5 witness: a second invocation for an identifier with a success record has
\* returned by the early return.
C5_Witness ==
    /\ Skipped
    /\ result = <<FALSE, NoPath, None>>
    /\ priorSuccess = 1
    /\ is_processed(job_identifier)

\* C6: when a stage fails (no URL, download, transcription, analysis, artifact
\* assembly) no later stage runs, the except clause calls mark_processed with
\* status error, and once that write has completed the invocation returns
\* success = False with the single record of the identifier carrying status
\* error and the captured message.
C6_StageFailureRecorded ==
    (Finished /\ failedStage \in StageFailures) =>
        /\ \A i \in 1..Len(MainTrace) :
              MainTrace[i] = "cleanup" \/ Rank(MainTrace[i]) <= Rank(failedStage)
        /\ "ledger_error" \in Stages(trace)
        /\ error_msg # None
        /\ pc = "returned" =>
              /\ result[1] = FALSE
              /\ Cardinality(RecordsOf(job_identifier)) = 1
              /\ \A r \in RecordsOf(job_identifier) :
                    r.status = "error" /\ r.error_message = error_msg

\* C6 witness: the analysis was exhausted and the invocation has returned.
C6_Witness ==
    /\ pc = "returned"
    /\ failedStage = "analyze"
    /\ \E r \in RecordsOf(job_identifier) : r.status = "error"

\* C7: while every ledger call completes no exception leaves process_job_file:
\* a stage failure ends in the return of (False, None, video_id).
C7_NoStageFailureEscapes ==
    /\ pc = "raised" => dbRaised # {}
    /\ (Finished /\ failedStage # None /\ dbRaised = {}) =>
          (pc = "returned" /\ result = <<FALSE, NoPath, video_id>>)

\* C7 witness: a failed download was returned as (False, None, video_id).
C7_Witness ==
    /\ pc = "returned"
    /\ failedStage = "download"
    /\ dbRaised = {}
    /\ result = <<FALSE, NoPath, "v1">>

\* C8: a mark_processed that raised always leaves process_job_file as an
\* exception, and once an exception has left process_job_file the watcher
\* stops instead of logging it and going on.
C8_LedgerFailureStopsWatcher ==
    [][/\ pc' = "returned" => dbRaised' \cap {"mark_success", "mark_error"} = {}
       /\ pc = "raised" => wstate' = "stopped"]_vars

\* C9: when building or sending the success notification has failed, the
\* invocation still returns success = True and the record keeps status success.
C9_NotificationNeverFailsJob ==
    (pc = "returned" /\ notifyOutcome \in {"send_failed", "build_failed"}) =>
        /\ result[1] = TRUE
        /\ \E r \in RecordsOf(job_identifier) : r.status = "success"

\* C10: the stages of one invocation run in the order resolve, download,
\* transcribe, analyze, note, audio copy, ledger write, success notification,
\* cleanup, none before all its predecessors; a success record always names an
\* artifact folder holding the note and the audio, and the success notification
\* is built only after this invocation's success write.
C10_StageOrder ==
    LET mt == MainTrace
    IN  /\ \A i \in 1..(Len(mt) - 1) : Rank(mt[i]) < Rank(mt[i + 1])
        /\ \A i \in 1..Len(mt) : mt[i] # "cleanup" => Rank(mt[i]) = i
        /\ \A r \in ledger : r.status = "success" =>
              /\ r.output_path \in DOMAIN artifacts
              /\ artifacts[r.output_path].note
              /\ artifacts[r.output_path].audio
        /\ "notify_success" \in Stages(trace) => successWrites[job_identifier] > priorSuccess

\* C10 witness: a complete successful run.
C10_Witness ==
    /\ pc = "returned"
    /\ result[1] = TRUE
    /\ MainTrace = PipelineOrder

\* the mark_processed calls of this invocation that completed
LedgerWrites == markCalls - Cardinality(dbRaised \cap {"mark_success", "mark_error"})

\* C11: when the process is stopped while a job is in flight (the watcher has
\* called process_job_file for the identifier and has not finished handling
\* the result), this invocation has completed no ledger write.
C11_AbandonedWithoutLedgerWrite ==
    [][(handler # "none" /\ wstate' = "exited") => LedgerWrites = 0]_vars

SourceTags == {"youtube_manual", "youtube_auto", "whisper"}
\* transcribe has been called in this invocation
Transcribed == transcript_result # NoTranscript

\* C16: transcribe returns a result tagged youtube_manual or youtube_auto,
\* following the caption_source flag of the download, exactly when a caption
\* file existed and parsed; Whisper is not called in that case; every tag
\* returned is youtube_manual, youtube_auto or whisper.
C16_CaptionTagsFollowProvenance ==
    Transcribed =>
        /\ transcript_result.source \in {"youtube_manual", "youtube_auto"}
              <=> transcript_result.captions = "parsed"
        /\ transcript_result.captions = "parsed" =>
              /\ transcript_result.whisper = "not_called"
              /\ transcript_result.source = "youtube_manual"
                    <=> download_result.caption_source = "manual"
              /\ transcript_result.source = "youtube_auto"
                    <=> download_result.caption_source = "auto"
        /\ transcript_result.source # None => transcript_result.source \in SourceTags

\* C16 witness: auto captions were parsed and tagged youtube_auto.
C16_Witness ==
    /\ pc = "analyze"
    /\ download_result.caption_source = "auto"
    /\ transcript_result = Transcript("youtube_auto", "parsed", "not_called")

\* C17: when no caption file exists or parsing it failed, Whisper is called;
\* its result is tagged whisper, and when it raises too the invocation goes
\* to the except clause as a transcription failure and ends with success =
\* False; no stage after transcribe ever sees a result without a source tag.
C17_WhisperOrFail ==
    /\ (Transcribed /\ transcript_result.captions \in {"absent", "parse_failed"}) =>
          /\ transcript_result.whisper \in {"returned", "raised"}
          /\ transcript_result.whisper = "returned" => transcript_result.source = "whisper"
          /\ transcript_result.whisper = "raised" =>
                /\ transcript_result.source = None
                /\ failedStage = "transcribe"
                /\ pc \in {"except", "notify_error", "cleanup_error", "returned", "raised"}
                /\ pc = "returned" => result[1] = FALSE
    /\ "analyze" \in Stages(trace) => transcript_result.source \in SourceTags

\* C17 witness: the caption file did not parse, Whisper raised, the job failed.
C17_Witness ==
    /\ pc = "returned"
    /\ transcript_result = Transcript(None, "parse_failed", "raised")
    /\ result[1] = FALSE

----------------------------------------------------------------------------
\* Claims about the transcript (checked under MergeSpec and FormatSpec)

CleanTexts(segs) == [i \in 1..Len(segs) |-> clean_text(segs[i])]
RECURSIVE IsSubsequence(_, _)
\* a is b with some elements left out
IsSubsequence(a, b) ==
    IF a = <<>> THEN TRUE
    ELSE IF b = <<>> THEN FALSE
    ELSE IF Head(a) = Head(b) THEN IsSubsequence(Tail(a), Tail(b))
    ELSE IsSubsequence(a, Tail(b))
Overlap(x, y) == IsSubstring(x, y) \/ IsSubstring(y, x)

\* C12: merging the output of _merge_segments again gives the same list.
C12_MergeIdempotent ==
    tstate = "remerged" => remerged = merged

\* C13: in the output of _merge_segments no two adjacent segments have trimmed,
\* lowercased texts that are equal or one a substring of the other.
C13_NoAdjacentOverlap ==
    tstate \in {"merged", "remerged"} =>
        \A i \in 1..(Len(merged) - 1) :
            ~Overlap(clean_text(merged[i]), clean_text(merged[i + 1]))

C15_SubsequenceWithoutDuplicates ==
    tstate # "input" =>
        /\ IsSubsequence(merged, segments)
        /\ \A i, j \in 1..Len(merged) :
              i # j => clean_text(merged[i]) # clean_text(merged[j])

\* C15 witness: a text dropped from the seen set by a replacement comes back
\* later in the input and is accepted again.
C15_Witness ==
    /\ tstate = "merged"
    /\ Len(segments) = 4
    /\ Len(merged) = 3
    /\ merged = <<segments[2], segments[3], segments[4]>>
    /\ clean_text(segments[1]) = clean_text(segments[4])

\* the segments of `segs` that got a marker in front of them in `items`
RECURSIVE MarkedSegments(_, _)
MarkedSegments(items, k) ==
    IF items = <<>> THEN {}
    ELSE IF "marker" \in DOMAIN Head(items)
         THEN {k} \cup MarkedSegments(Tail(Tail(items)), k + 1)
         ELSE MarkedSegments(Tail(items), k + 1)
\* the last segment before i with a marker (0 when there is none)
PreviousMarked(marked, i) ==
    IF \E j \in marked : j < i
    THEN CHOOSE j \in marked : j < i /\ \A h \in marked : h < i => h <= j
    ELSE 0

\* C18: format_with_timestamps puts a marker before the first segment and then
\* before exactly the segments that start at least interval_seconds after the
\* start of the segment holding the previous marker; starts 0, 30, 65, 130
\* with interval 60 get markers before 0, 65 and 130; every segment text is
\* kept in order.
C18_MarkersEveryInterval ==
    tstate = "formatted" =>
        LET marked == MarkedSegments(lines, 1)
        IN  /\ segments # <<>> => 1 \in marked
            /\ \A i \in 2..Len(segments) :
                  i \in marked <=>
                      segments[i].start - segments[PreviousMarked(marked, i)].start
                          >= interval_seconds
            /\ \A i \in marked : lines[i + Cardinality({j \in marked : j < i})]
                                    = Marker(segments[i].start)
            /\ Len(lines) = Len(segments) + Cardinality(marked)
            /\ (interval_seconds = 60 /\ [i \in 1..Len(segments) |-> segments[i].start]
                                            = <<0, 30, 65, 130>>) => marked = {1, 3, 4}

\* C18 witness: the example has been formatted.
C18_Witness ==
    /\ tstate = "formatted"
    /\ interval_seconds = 60
    /\ [i \in 1..Len(segments) |-> segments[i].start] = <<0, 30, 65, 130>>
    /\ MarkedSegments(lines, 1) = {1, 3, 4}
    /\ Len(lines) = 7


----------------------------------------------------------------------------
\* Claims about URLParser.parse_job_file (checked under ParseSpec)

\* the line is skipped: blank, or starting with '#' once stripped
SkippedLine(line) == strip_line(line) = <<>> \/ Head(strip_line(line)) = Hash

\* a URL token of the line that carries an 11-character identifier in a place
\* where the parser looks for one
CarriesId(line, i) ==
    /\ line[i].kind = "url"
    /\ line[i].vid \in VideoIds
    /\ line[i].form \in {"watch", "short", "embed", "shorts", "live", "mobile"}
       \/ /\ line[i].form = "param"
          /\ line[i].scheme
          /\ \A j \in 1..(i - 1) : ~(line[j].kind = "url" /\ line[j].scheme)
          /\ i = Len(line) \/ line[i + 1] = Space

\* the line yields a valid identifier
Yields(line) == ~SkippedLine(line) /\ \E i \in 1..Len(line) : CarriesId(line, i)

\* the identifier is one the line carries
IdOf(line, vid) == \E i \in 1..Len(line) : CarriesId(line, i) /\ line[i].vid = vid

Resolved == "resolve" \in Stages(trace)

\* C19: parse_job_file scans the lines in order, ignores blank lines and lines
\* starting with '#', and returns the canonical watch URL of the first
\* remaining line that yields a valid identifier, also when the URL is
\* embedded in other text; when no such line exists it returns nothing, and
\* the job fails in the resolve stage with the "No valid YouTube URL" error.
C19_FirstUsableLine ==
    Resolved =>
        IF \E k \in 1..Len(job_content) : Yields(job_content[k])
        THEN LET k == CHOOSE k \in 1..Len(job_content) :
                          /\ Yields(job_content[k])
                          /\ \A h \in 1..(k - 1) : ~Yields(job_content[h])
             IN  /\ pc = "download"
                 /\ url.kind = "url" /\ url.scheme /\ url.form = "watch"
                 /\ url = WatchUrl(video_id)
                 /\ IdOf(job_content[k], video_id)
        ELSE /\ pc = "except"
             /\ failedStage = "resolve"
             /\ error_msg = "ValueError: No valid YouTube URL found in job file"
             /\ url = NoUrl
             /\ video_id = None

\* C19 witness: a commented URL, then a line of text, then a URL embedded in
\* other text, which is the one returned.
C19_Witness ==
    /\ Resolved
    /\ job_content = << <<Hash, Space, Url(TRUE, "short", "v1")>>,
                        <<Word>>,
                        <<Word, Space, Url(TRUE, "param", "v2"), Space, Word>> >>
    /\ url = WatchUrl("v2")
    /\ pc = "download"

----------------------------------------------------------------------------
\* Claims about GeminiClient.analyze_video (checked under RetrySpec)

AnalyzeDone == astate \in {"returned", "fallback", "raised"}

\* the waits made after the first n failed calls
Backoffs(n) == [k \in 1..n |-> retry_delay * (2 ^ (k - 1))]

\* number of waits owed after f failed calls: one per failure but the N-th
WaitsAfter(f) == IF f < max_retries THEN f ELSE IF max_retries > 0 THEN max_retries - 1 ELSE 0

RetryDiscipline ==
    astate # "idle" =>
        /\ calls <= max_retries
        /\ calls = IF astate \in {"called", "returned", "fallback"} THEN attempt + 1 ELSE attempt
        /\ slept = Backoffs(WaitsAfter(attempt))
        /\ Len(slept) < max_retries \/ max_retries = 0
        /\ astate = "raised" => attempt = max_retries /\ calls = max_retries

\* C20: analyze_video calls the service at most max_retries times and always
\* terminates; after the k-th failed call with k < max_retries it waits
\* retry_delay * 2^(k-1) before the next call, and it does not wait after the
\* max_retries-th failed call.
C20_BoundedRetriesWithBackoff == []RetryDiscipline /\ <>AnalyzeDone

\* C20 witness: three attempts allowed, all three failed: two waits of
\* retry_delay and twice retry_delay, none after the third, then the raise.
C20_Witness ==
    /\ astate = "raised"
    /\ max_retries = 3
    /\ retry_delay = 2
    /\ calls = 3
    /\ slept = <<2, 4>>

----------------------------------------------------------------------------
\* Claims about GeminiClient._parse_response (checked under ResponseSpec)

\* the "tags" value of the response, when the text is one JSON object
ResponseObject == Decodes(strip_fences(response_text)) /\ strip_fences(response_text)[1].kind = "dict"
ResponseFields == strip_fences(response_text)[1].fields
TagsUnusable ==
    /\ ResponseObject
    /\ \/ "tags" \notin DOMAIN ResponseFields
       \/ ResponseFields["tags"].type # "list"
       \/ ResponseFields["tags"].items = <<>>

Primaries(tags) == {i \in 1..Len(tags) : IsDict(tags[i]) /\ get_primary(tags[i])}

\* C23: for every response text the result of _parse_response has a non-empty
\* tag list; a response that omits the tags field, or whose tags value is
\* empty or not a list, is repaired to exactly one tag named uncategorized
\* with confidence 100 and primary true.
C23_TagsNeverEmpty ==
    rstate = "parsed" =>
        /\ Len(parsed.tags) > 0
        /\ TagsUnusable => parsed.tags = <<Tag("uncategorized", 100, TRUE)>>

\* C23 witness: a fenced JSON object with a title and an empty tags list.
C23_Witness ==
    /\ rstate = "parsed"
    /\ response_text = <<FenceJson, JsonObject([k \in {"title", "tags"} |->
                            IF k = "title" THEN "T" ELSE JList(<<>>)]), Fence>>
    /\ parsed.title = "T"
    /\ parsed.tags = <<UncategorizedTag>>

\* C24: every result of the analysis engine has exactly one tag with primary
\* true whenever its tag list is non-empty, for every response the service
\* can return, those that mark zero or several tags as primary included.
C24_ExactlyOnePrimary ==
    rstate = "parsed" => (Len(parsed.tags) > 0 => Cardinality(Primaries(parsed.tags)) = 1)

----------------------------------------------------------------------------
\* Claims about the analysis stage (checked under AnalysisSpec)

Analyzed == "analyze" \in Stages(trace)

\* C21: when all max_retries attempts have failed, analyze_video raises (it
\* never returns a degraded or default analysis); the job ends failed, with
\* a ledger record of status error once the write of the except clause has
\* completed, and no artifact is created.
C21_ExhaustionFailsJob ==
    (Analyzed /\ rstate # "parsed") =>
        /\ attempt = max_retries /\ calls = max_retries
        /\ failedStage = "analyze"
        /\ error_msg = "Exception: Failed to analyze video after max_retries attempts"
        /\ analysis = NoAnalysis
        /\ folder_path = NoPath
        /\ artifacts = <<>>
        /\ pc \notin {"create_note", "copy_audio", "mark_success", "notify_success", "cleanup"}
        /\ pc = "returned" =>
              /\ result = <<FALSE, NoPath, video_id>>
              /\ Cardinality(RecordsOf(job_identifier)) = 1
              /\ \A r \in RecordsOf(job_identifier) :
                    r.status = "error" /\ r.error_message = error_msg

\* C21 witness: three attempts, all failed; the job has returned failure.
C21_Witness ==
    /\ pc = "returned"
    /\ max_retries = 3
    /\ calls = 3
    /\ rstate # "parsed"
    /\ failedStage = "analyze"
    /\ \E r \in RecordsOf(job_identifier) : r.status = "error"

----------------------------------------------------------------------------
\* Claims about JobFileHandler.on_created (checked under HandlerSpec)

\* the invocations inside the try block or its finally clause
Executing == {t \in Threads : hpc[t] \in {"try", "finally"}}

\* C25: whenever no on_created invocation is executing the in-flight set is
\* empty: an invocation that added its path removes it again on every outcome
\* (success, job failure, read error, exception), and an invocation that
\* returns early because the path is already in flight does not remove it.
C25_InFlightSetDrains ==
    [][/\ processing' \subseteq {hfile'[t] : t \in Executing'}
       /\ (\A t \in Threads : hpc'[t] = "idle") => processing' = {}
       /\ \A t \in Threads :
             (hpc[t] = "finally" /\ hpc'[t] = "idle") => hfile[t] \notin processing'
       /\ \A t \in Threads :
             (hlast'[t] = "in_flight" /\ hlast[t] # "in_flight") =>
                 (processing' = processing /\ processing' # {})]_vars

\* C25 witness: the second delivery of an event returned early while the
\* first was in flight, the first then ended on a read error, and the set is
\* empty again.
C25_Witness ==
    /\ hlast["t2"] = "in_flight"
    /\ hlast["t1"] = "read_error"
    /\ \A t \in Threads : hpc[t] = "idle"
    /\ processing = {}

----------------------------------------------------------------------------
\* Claims about the local watcher

\* the handling of the current file ends without the process exiting
HandlingEnds == handler # "none" /\ handler' = "none" /\ wstate' # "exited"

PresentAtStart == DOMAIN inbox \cup DOMAIN archive

C28_OneRefreshPerTick ==
    \A a \in Accounts : refreshes[a] <= 1 /\ a \notin afterDenied

\* C29: whenever a page of a listing is about to be requested, the saved
\* cursor of the account is the cursor of the last page Dropbox delivered for
\* it, so a listing interrupted after page 2 goes on with page 3
C29_ResumesFromSavedCursor ==
    dpc = "page" => cursors[cur_account] = seen[cur_account]

\* C30: when a poll cycle has ended, process_account was invoked for every
\* tracked account, whatever happened for the others, and when an account is
\* done every file of its listing was handed to download_and_process_file,
\* whatever happened for the files before it
C30_EveryAccountPolled ==
    /\ dpc = "sleep" => polled = tracked
    /\ dpc \in {"loop", "sleep"} => files_left = <<>>
    /\ dpc \in {"loop", "sleep"} /\ handled # <<>> => Len(handled) = Len(new_files)

\* a cycle over two accounts has ended: the first had no client, and the
\* first file of the second failed before the next one succeeded
C30_Witness ==
    /\ dpc = "sleep"
    /\ tracked = Accounts
    /\ polled = Accounts
    /\ "acc1" \in denied
    /\ Len(handled) >= 2
    /\ handled[1] \in {"failed", "raised"}
    /\ handled[2] = "success"

\* the file the remote watcher handled last, and what it did for it
LastResult == handled[Len(handled)]
Uploads == {"upload", "upload_failed"}
Moves == {"move", "move_failed"}

\* C31: for the file handled last with a client, the upload of the output
\* folder and the move to the archive are attempted exactly when the
\* orchestrator returned success, and then the upload comes before the move
C31_UploadAndArchiveOnSuccess ==
    handled # <<>> /\ remote_ops # <<>> =>
        IF LastResult = "success"
        THEN /\ Len(remote_ops) = 3
             /\ remote_ops[1] = "download"
             /\ remote_ops[2] \in Uploads
             /\ remote_ops[3] \in Moves
        ELSE \A i \in DOMAIN remote_ops : remote_ops[i] \notin Uploads \cup Moves

\* a job returned success; its folder was uploaded and its file archived
C31_Witness ==
    /\ handled # <<>>
    /\ LastResult = "success"
    /\ remote_ops = <<"download", "upload", "move">>

\* C37: the job file handled last was moved to the archive only if the
\* upload of its output folder had succeeded
C37_ArchiveOnlyAfterUpload ==
    handled # <<>> /\ "move" \in Range(remote_ops) => "upload" \in Range(remote_ops)

\* C34: while a watcher runs no account leaves initialized_accounts;
\* process_account enters initialize_folder_structure for an account exactly
\* when the account has not been initialized, on every tick; a creation that
\* met conflicts initializes the account, and one without a client does not
C34_InitializedOnce ==
    [][/\ dpc' # "idle" => initialized_accounts \subseteq initialized_accounts'
       /\ dpc = "loop" /\ dpc' \in {"init", "list"} =>
              (dpc' = "init" <=> cur_account' \notin initialized_accounts)
       /\ dpc = "init" /\ dpc' # "idle" =>
              /\ remote_ops' \in {<<"created">>, <<"conflict">>} =>
                     cur_account \in initialized_accounts'
              /\ remote_ops' = <<>> => cur_account \notin initialized_accounts'
      ]_vars

\* the folders of an account existed already: the creation met conflicts and
\* the account is initialized
C34_Witness ==
    /\ dpc = "list"
    /\ remote_ops = <<"conflict">>
    /\ cur_account \in initialized_accounts

\* the candidates of the listing or of the file loop under way
Pending ==
    IF dpc = "page" THEN Range(new_files)
    ELSE IF dpc = "files" THEN Range(files_left)
    ELSE {}

\* C36: a candidate that was listed leaves the watcher only by being handed to
\* download_and_process_file, unless the saved cursor of its account is
\* before its page, so that it will be listed again
C36_NoListedCandidateLost ==
    [][\A f \in Pending \ Pending' :
           \/ dpc = "files" /\ f = Head(files_left) /\ Len(handled') = Len(handled) + 1
           \/ cursors'[f[1]] < f[2]
      ]_vars

\* the ledger holds an error record for the identifier
ErrorRecorded(k) == \E r \in RecordsOf(k) : r.status = "error"

\* C35: an invocation whose identifier has an error record is not skipped at
\* the check, and when an invocation returns success the identifier has one
\* record, with status success, the output path of this run and no error
\* message
C35_ErrorRecordIsRetried ==
    [][/\ (pc = "check" /\ ErrorRecorded(job_identifier)) => pc' # "returned"
       /\ (pc = "mark_success" /\ pc' = "notify_success") =>
              /\ Cardinality(RecordsOf(job_identifier)') = 1
              /\ \A r \in RecordsOf(job_identifier)' :
                    /\ r.status = "success"
                    /\ r.output_path = folder_path
                    /\ r.error_message = None
       /\ (pc # "returned" /\ pc' = "returned" /\ result'[1]) =>
              /\ Cardinality(RecordsOf(job_identifier)) = 1
              /\ \A r \in RecordsOf(job_identifier) :
                    /\ r.status = "success"
                    /\ r.output_path = folder_path
                    /\ r.error_message = None
              /\ UNCHANGED ledger
      ]_vars

\* the second invocation for an identifier with an error record has passed
\* every stage and is about to write the ledger
C35_Witness ==
    /\ pc = "mark_success"
    /\ runs = 2
    /\ ErrorRecorded(job_identifier)
    /\ {"resolve", "download", "transcribe", "analyze", "create_note"} \subseteq Stages(trace)

\* C38: a job file found by the local watcher at a path whose identifier has a
\* success record is skipped whatever it contains: the check returns at once
\* without a stage or a ledger write, and when its handling ends the file is in
\* the inbox as it was and the archive and the ledger are unchanged
C38_ProcessedPathIsSkipped ==
    [][/\ (handler # "none" /\ pc = "check" /\ is_processed(LocalIdentifier(cur))
             /\ pc' \notin {"check", "except"}) =>
              /\ pc' = "returned" \/ (pc' = "idle" /\ wstate' = "exited")
              /\ pc' = "returned" => trace' = <<>> /\ markCalls' = 0
              /\ UNCHANGED <<ledger, inbox, archive, temp, artifacts>>
       /\ (HandlingEnds /\ Skipped) =>
              /\ cur \in DOMAIN inbox' /\ inbox'[cur] = inbox[cur]
              /\ UNCHANGED <<archive, ledger>>
      ]_vars

\* a file with another content was dropped at the path of an archived job and
\* its job was skipped
C38_Witness ==
    /\ handler = "on_created"
    /\ Skipped
    /\ is_processed(LocalIdentifier(cur))
    /\ cur \in DOMAIN inbox
    /\ cur \in DOMAIN archive
    /\ inbox[cur] # archive[cur]

\* the temporary files of a video
TempOf(v) == {f \in temp : f[1] = v}

C32_IdentifiersSeparateJobs ==
    /\ jobs[1].watcher # jobs[2].watcher => IdentifierOf(jobs[1]) # IdentifierOf(jobs[2])
    /\ IdentifierOf(jobs[1]) = IdentifierOf(jobs[2]) => jobs[1] = jobs[2]
    /\ id_state = "checked" /\ answer[2] => jobs[1] = jobs[2]

\* a local job under a path that spells a remote identifier, and the remote
\* job itself: the record of the first did not make the second skipped
C32_Witness ==
    /\ id_state = "checked"
    /\ jobs[1].watcher = "local"
    /\ jobs[2].watcher = "dropbox"
    /\ SubSeq(jobs[1].path, 2, Len(jobs[1].path)) = <<"dbid", ":">>
    /\ ~answer[2]
    /\ is_processed(IdentifierOf(jobs[1]))

\* C33: a save of the callback thread writes the record of an account that
\* had none, leaves the records of the other accounts alone, and changes
\* neither the ledger nor the cursors, the initialized accounts or a job in
\* flight
C33_CallbackOnlyAddsRecords ==
    [][(cpc = "save" /\ cpc' = "idle") =>
          /\ store[cnew[1]] = NoToken
          /\ \A b \in Accounts \ {cnew[1]} : store'[b] = store[b]
          /\ UNCHANGED <<ledgerVars, cursors, initialized_accounts, processing, pc,
                         files_left>>
      ]_vars

\* C39: when neither thread is inside a write, the record of an account the
\* callback thread has saved holds the refresh token of its last save
C39_RefreshKeepsNewestRecord ==
    \A a \in Accounts :
        rpc = "idle" /\ cpc = "idle" /\ cblast[a] # 0 => store[a].refresh = cblast[a]

====
